---------------------------- MODULE Spec2Model ----------------------------
(***************************************************************************)
(* A model of src/src/vector_store.py: the chunker (SimpleChunker), the    *)
(* embedding client (OllamaEmbeddings), and the FAISS-backed VectorStore   *)
(* with its two persisted artifacts (index file, metadata file); and of the *)
(* stores built on it: MemoryStore (src/src/memory_server.py, the same      *)
(* methods as SQLiteMemoryAPI) and PostgresMemoryAPI                        *)
(* (src/src/postgres_memory_api.py); and of the caching embedding client    *)
(* of src/src/ollama_embeddings.py.                                         *)
(*                                                                         *)
(* Representation.                                                         *)
(*  - A text is a sequence of paragraphs (the pieces re.split(r'\n\s*\n')  *)
(*    yields); a paragraph is a sequence of sentences (the pieces          *)
(*    re.split(r'(?<=[.!?])\s+') yields); a sentence is [w, n]: a tag w    *)
(*    naming its words and its length n in characters.  Sentences of a     *)
(*    paragraph are separated by one space.                                *)
(*  - A vector is [len, c]: its number of components and its first two     *)
(*    components; the remaining components are zero.  Normalised vectors   *)
(*    are kept in fixed point: a unit vector has length Scale.             *)
(*  - Slots are 0-based as in the code; TLA+ sequences are 1-based, so     *)
(*    slot s of a sequence q is q[s + 1].                                  *)
(***************************************************************************)
EXTENDS Integers, Sequences, FiniteSets, TLC

VARIABLES
    up,         \* the process holding the VectorStore object is running
    index,      \* self.index: the FAISS IndexFlatL2, a sequence of vectors
    chunks,     \* self.metadata["chunks"]
    id_map,     \* self.metadata["id_map"]: text_id -> list of chunk indices
    diskIndex,  \* the file at index_path
    diskMeta,   \* the file at metadata_path
    last,       \* the last constructor / add_text / update_text call
    found,      \* the last search call, valid until the store next changes
    calls,      \* per thread: the frame of the call it is executing, if any
    chunked,    \* the last SimpleChunker call: its text and what it returned
    rows,       \* MemoryStore: the memories table, id -> row
    tables,     \* PostgresMemoryAPI: domain -> its <domain>_memories table
    clock,      \* time.time(), in ticks of a fraction of a millisecond
    reply,      \* the last store_memory / retrieve_memories / update_memory call
    vector_store, \* MemoryStore.vector_store is set (not None)
    cache,      \* OllamaEmbeddings._embedding_cache, in insertion order
    asked,      \* the last get_embedding / get_embeddings call of the client
    recency,    \* the cached keys, least recently used first
    dicts       \* the dict object that is the "metadata" of each catalog entry

vars == <<up, index, chunks, id_map, diskIndex, diskMeta, last, found, calls,
          chunked, rows, tables, clock, reply, vector_store, cache, asked, recency, dicts>>

\* what a call into a VectorStore alone leaves as it is
AppVars == <<chunked, rows, tables, clock, reply, vector_store, cache, asked, recency, dicts>>

-----------------------------------------------------------------------------
(* Program constants *)

\* chunk_by_paragraph / chunk_by_sentence defaults
MinSize == 50
MaxSize == 1000
\* VectorStore.__init__ embedding_dim default
EmbeddingDim == 768
\* length of the zero vector get_embedding returns on failure
FallbackDim == 768
\* search asks the index for limit * 3 neighbours
OverFetch == 3
\* fixed-point length of a unit vector after faiss.normalize_L2
Scale == 5

(* Bounds of the model *)

\* most entries the catalog and the index grow to
MaxChunks == 3
\* the same, in the executions that re-embed one text over and over
MaxRefresh == 4
\* largest limit passed to search
MaxLimit == 2

-----------------------------------------------------------------------------
(* Values *)

None == "None"
Docs == {"d1", "d2"}

S(w, n) == [w |-> w, n |-> n]

\* the texts the operations are called with
TextA   == << <<S("a", 60)>> >>
TextB   == << <<S("b", 60)>> >>
TextAB  == << <<S("a", 60)>>, <<S("b", 60)>> >>
TextC   == << <<S("c", 10)>> >>
\* two paragraphs, each under min_size; a kept paragraph and one under min_size
TextCC  == << <<S("c", 10)>>, <<S("c", 20)>> >>
TextAC  == << <<S("a", 60)>>, <<S("c", 10)>> >>
\* the empty string: re.split yields one empty paragraph
EmptyText == << <<>> >>
Texts   == {TextA, TextAB}
Queries == {TextA, TextB}

\* metadata mappings are sets of <<key, value>> pairs
NoMeta == {}
Metas  == {NoMeta}

RECURSIVE SumLen(_)
SumLen(p) == IF p = <<>> THEN 0 ELSE Head(p).n + SumLen(Tail(p))

\* len() of a paragraph or of a sentence buffer: sentences joined by " "
StrLen(p) == IF p = <<>> THEN 0 ELSE SumLen(p) + (Len(p) - 1)

-----------------------------------------------------------------------------
(* SimpleChunker *)

RECURSIVE SentenceLoop(_, _, _)
SentenceLoop(sentences, current_chunk, out) ==
    IF sentences = <<>>
    THEN IF current_chunk # <<>> /\ StrLen(current_chunk) >= MinSize
         THEN Append(out, <<current_chunk>>)
         ELSE out
    ELSE LET sentence == Head(sentences) IN
         IF StrLen(current_chunk) + sentence.n > MaxSize
              /\ StrLen(current_chunk) >= MinSize
         THEN SentenceLoop(Tail(sentences), <<sentence>>,
                           Append(out, <<current_chunk>>))
         ELSE SentenceLoop(Tail(sentences), Append(current_chunk, sentence), out)

chunk_by_sentence(para) == SentenceLoop(para, <<>>, <<>>)

RECURSIVE ParagraphLoop(_, _)
ParagraphLoop(paragraphs, out) ==
    IF paragraphs = <<>> THEN out
    ELSE LET para == Head(paragraphs) IN
         IF para = <<>> \/ StrLen(para) < MinSize
         THEN ParagraphLoop(Tail(paragraphs), out)
         ELSE IF StrLen(para) <= MaxSize
              THEN ParagraphLoop(Tail(paragraphs), Append(out, <<para>>))
              ELSE ParagraphLoop(Tail(paragraphs), out \o chunk_by_sentence(para))

chunk_by_paragraph(text) == ParagraphLoop(text, <<>>)

-----------------------------------------------------------------------------
(* OllamaEmbeddings and the vector arithmetic of numpy / FAISS *)

Vec(n, x, y) == [len |-> n, c |-> <<x, y>>]

ZeroVector == Vec(FallbackDim, 0, 0)

\* what the provider answers for a text when the call succeeds
ProviderVector(text) ==
    LET w == IF text = <<>> \/ text[1] = <<>> THEN "" ELSE text[1][1].w IN
    CASE w = "a" -> Vec(EmbeddingDim, 6, 8)
      [] w = "b" -> Vec(EmbeddingDim, 8, 6)
      [] w = "c" -> Vec(EmbeddingDim, 0, 10)
      [] OTHER   -> Vec(EmbeddingDim, 10, 0)

\* how one provider call ends: "ok", "fail" (the request raises), or "baddim"
\* (the provider answers with a vector of another length than the index has)
Outcomes == {"ok", "fail", "baddim"}

\* a get_embedding whose fallback is an empty list
get_embedding_empty_fallback(text, outcome) ==
    CASE outcome = "ok"     -> ProviderVector(text)
      [] outcome = "baddim" -> [ProviderVector(text) EXCEPT !.len = EmbeddingDim + 256]
      [] OTHER              -> Vec(0, 0, 0)

get_embedding(text, outcome) ==
    CASE outcome = "ok"     -> ProviderVector(text)
      [] outcome = "baddim" -> [ProviderVector(text) EXCEPT !.len = EmbeddingDim + 256]
      [] OTHER              -> ZeroVector

ISqrt(n) == CHOOSE r \in 0..n : r * r <= n /\ (r + 1) * (r + 1) > n

\* faiss.normalize_L2: divide by the L2 norm; a zero vector is left alone
normalize_L2(v) ==
    LET nr == ISqrt(v.c[1] * v.c[1] + v.c[2] * v.c[2]) IN
    IF nr > 0
    THEN [v EXCEPT !.c = <<(v.c[1] * Scale) \div nr, (v.c[2] * Scale) \div nr>>]
    ELSE v

\* squared Euclidean distance, in units of 1 / Scale^2
L2Sqr(a, b) ==
    (a.c[1] - b.c[1]) * (a.c[1] - b.c[1]) + (a.c[2] - b.c[2]) * (a.c[2] - b.c[2])

\* the distance FAISS reports for a neighbour that does not exist (FLT_MAX)
FltMax == 4 * Scale * Scale + 1


-----------------------------------------------------------------------------
(* faiss.IndexFlatL2 *)

\* index.add(x): the Python wrapper asserts x.shape[1] == index.d
IndexAccepts(v) == v.len = EmbeddingDim

\* an index.search that lists the stored vectors farthest first
IndexSearch_farthest_first(idx, q, k) ==
    LET n == Len(idx)
        Before(r, p) == \/ L2Sqr(idx[r], q) > L2Sqr(idx[p], q)
                        \/ L2Sqr(idx[r], q) = L2Sqr(idx[p], q) /\ r < p
        Rank(p) == Cardinality({r \in 1..n : Before(r, p)})
    IN  [i \in 1..k |->
            IF i <= n
            THEN LET p == CHOOSE p \in 1..n : Rank(p) = i - 1
                 IN  [label |-> p - 1, dist |-> L2Sqr(idx[p], q)]
            ELSE [label |-> -1, dist |-> FltMax]]

\* index.search(q, k): the k nearest stored vectors in ascending distance, equal
\* distances in ascending label order; when fewer than k vectors are stored the
\* remaining places hold label -1 and distance FLT_MAX
IndexSearch(idx, q, k) ==
    LET n == Len(idx)
        Before(r, p) == \/ L2Sqr(idx[r], q) < L2Sqr(idx[p], q)
                        \/ L2Sqr(idx[r], q) = L2Sqr(idx[p], q) /\ r < p
        Rank(p) == Cardinality({r \in 1..n : Before(r, p)})
    IN  [i \in 1..k |->
            IF i <= n
            THEN LET p == CHOOSE p \in 1..n : Rank(p) = i - 1
                 IN  [label |-> p - 1, dist |-> L2Sqr(idx[p], q)]
            ELSE [label |-> -1, dist |-> FltMax]]

-----------------------------------------------------------------------------
(* VectorStore: persistence *)

NoIdMap == [d \in {} |-> <<>>]

MissingIndex == [state |-> "missing", data |-> <<>>]
TornIndex    == [state |-> "torn", data |-> <<>>]
MissingMeta  == [state |-> "missing", chunks |-> <<>>, id_map |-> NoIdMap]
TornMeta     == [state |-> "torn", chunks |-> <<>>, id_map |-> NoIdMap]

\* faiss.write_index(self.index, self.index_path)
save_index(idx) == [state |-> "ok", data |-> idx]

\* json.dump(self.metadata, f)
save_metadata(cks, idm) == [state |-> "ok", chunks |-> cks, id_map |-> idm]

\* _initialize_index: read the file if it exists and can be read, else a new index
initialize_index(file) == IF file.state = "ok" THEN file.data ELSE <<>>

\* _initialize_metadata: load the file if it exists and parses, else empty metadata
initialize_metadata(file) ==
    IF file.state = "ok"
    THEN [chunks |-> file.chunks, id_map |-> file.id_map]
    ELSE [chunks |-> <<>>, id_map |-> NoIdMap]

-----------------------------------------------------------------------------
(* VectorStore.add_text, up to the point where it saves *)

Now == "now"

\* an add_text that embeds only what the chunker yields
OrWhole_chunker_only(cs, content) == cs

\* if not chunks: chunks = [content]
OrWhole(cs, content) == IF cs = <<>> THEN <<content>> ELSE cs

\* chunks = chunk_by_paragraph(content), or the whole content as one chunk
ChunksOf(content) == OrWhole(chunk_by_paragraph(content), content)

\* the number of chunks the loop appends: all of them, or those before the first
\* embedding the index does not accept
Appended(embs, bad) ==
    IF bad = {} THEN Len(embs) ELSE (CHOOSE i \in bad : \A j \in bad : i <= j) - 1

\* an add_text loop that reads the catalog length once, before the loop
AddLoop_index_read_once(idx, cks, idm, text_id, cs, embs, metadata, done) ==
    [raised |-> done < Len(cs),
     index  |-> idx \o [i \in 1..done |-> normalize_L2(embs[i])],
     chunks |-> cks \o [i \in 1..done |->
                    [chunk_index |-> Len(cks),
                     text_id     |-> text_id,
                     chunk_num   |-> i - 1,
                     content     |-> cs[i],
                     metadata    |-> metadata,
                     created_at  |-> Now]],
     id_map |-> IF done < Len(cs) THEN idm
                ELSE (text_id :> [i \in 1..done |-> Len(cks)]) @@ idm,
     slots  |-> [i \in 1..done |-> Len(cks)]]

\* the loop of add_text over chunks cs with embeddings embs, `done` of which are
\* appended, and the id_map assignment after the loop
AddLoop(idx, cks, idm, text_id, cs, embs, metadata, done) ==
    [raised |-> done < Len(cs),
     index  |-> idx \o [i \in 1..done |-> normalize_L2(embs[i])],
     chunks |-> cks \o [i \in 1..done |->
                    [chunk_index |-> Len(cks) + i - 1,
                     text_id     |-> text_id,
                     chunk_num   |-> i - 1,
                     content     |-> cs[i],
                     metadata    |-> metadata,
                     created_at  |-> Now]],
     id_map |-> IF done < Len(cs) THEN idm
                ELSE (text_id :> [i \in 1..done |-> Len(cks) + i - 1]) @@ idm,
     slots  |-> [i \in 1..done |-> Len(cks) + i - 1]]

Embedded(idx, cks, idm, text_id, cs, embs, metadata) ==
    AddLoop(idx, cks, idm, text_id, cs, embs, metadata,
            Appended(embs, {i \in 1..Len(cs) : ~IndexAccepts(embs[i])}))

\* get_embeddings(chunks): resp[i] is how the provider call for chunk i ends
get_embeddings(cs, resp) == [i \in 1..Len(cs) |-> get_embedding(cs[i], resp[i])]

Chunked(idx, cks, idm, text_id, cs, metadata, resp) ==
    Embedded(idx, cks, idm, text_id, cs, get_embeddings(cs, resp), metadata)

\* add_text: chunk, embed, append each embedding to the index and its chunk to
\* the catalog, set id_map.  The loop raises at the first embedding the index
\* does not accept and leaves what it appended before.
add_text(idx, cks, idm, text_id, content, metadata, resp) ==
    Chunked(idx, cks, idm, text_id, ChunksOf(content), metadata, resp)

-----------------------------------------------------------------------------
(* VectorStore.search *)

\* self.metadata["chunks"][idx] with Python's list indexing: a negative idx
\* counts from the end
PyIndex(cks, idx) == IF idx >= 0 THEN idx + 1 ELSE Len(cks) + idx + 1

\* a search loop that does not skip deleted chunks
RECURSIVE SearchLoop_keeps_deleted(_, _, _, _, _, _)
SearchLoop_keeps_deleted(cks, cands, i, limit, results, seen) ==
    IF i > Len(cands) THEN [raised |-> FALSE, results |-> results]
    ELSE LET idx == cands[i].label IN
         IF idx >= Len(cks)
         THEN SearchLoop_keeps_deleted(cks, cands, i + 1, limit, results, seen)
         ELSE IF PyIndex(cks, idx) \notin 1..Len(cks)
         THEN [raised |-> TRUE, results |-> <<>>]
         ELSE LET chunk == cks[PyIndex(cks, idx)]
                  text_id == chunk.text_id
              IN  IF text_id \in seen
                  THEN SearchLoop_keeps_deleted(cks, cands, i + 1, limit, results, seen)
                  ELSE LET r == Append(results,
                                   [id          |-> text_id,
                                    content     |-> chunk.content,
                                    metadata    |-> chunk.metadata,
                                    score       |-> cands[i].dist,
                                    chunk_index |-> idx])
                       IN  IF Len(r) >= limit
                           THEN [raised |-> FALSE, results |-> r]
                           ELSE SearchLoop_keeps_deleted(cks, cands, i + 1, limit, r,
                                                         seen \cup {text_id})

RECURSIVE SearchLoop(_, _, _, _, _, _)
SearchLoop(cks, cands, i, limit, results, seen) ==
    IF i > Len(cands) THEN [raised |-> FALSE, results |-> results]
    ELSE LET idx == cands[i].label IN
         IF idx >= Len(cks)
         THEN SearchLoop(cks, cands, i + 1, limit, results, seen)
         ELSE IF PyIndex(cks, idx) \notin 1..Len(cks)
         THEN [raised |-> TRUE, results |-> <<>>]   \* IndexError
         ELSE LET chunk == cks[PyIndex(cks, idx)]
                  text_id == chunk.text_id
              IN  IF text_id = None \/ text_id \in seen
                  THEN SearchLoop(cks, cands, i + 1, limit, results, seen)
                  ELSE LET r == Append(results,
                                   [id          |-> text_id,
                                    content     |-> chunk.content,
                                    metadata    |-> chunk.metadata,
                                    score       |-> cands[i].dist,
                                    chunk_index |-> idx])
                       IN  IF Len(r) >= limit
                           THEN [raised |-> FALSE, results |-> r]
                           ELSE SearchLoop(cks, cands, i + 1, limit, r,
                                           seen \cup {text_id})

\* a search that asks the index for no more neighbours than results
Candidates_no_overfetch(idx, query_np, limit) == IndexSearch(idx, query_np, limit)

\* the neighbours search asks the index for
Candidates(idx, query_np, limit) == IndexSearch(idx, query_np, limit * OverFetch)

search(idx, cks, query, limit, outcome) ==
    LET query_embedding == get_embedding(query, outcome) IN
    IF ~IndexAccepts(query_embedding)
    THEN [raised |-> TRUE, results |-> <<>>]       \* index.search asserts the dimension
    ELSE SearchLoop(cks, Candidates(idx, normalize_L2(query_embedding), limit),
                    1, limit, <<>>, {})

-----------------------------------------------------------------------------
(* VectorStore.update_text, up to the point where it saves *)

Range(q) == {q[i] : i \in DOMAIN q}

\* a tombstoning that removes the old chunks from the catalog
Tombstone_removes(cks, old_chunk_indices) ==
    LET keep == {i \in 1..Len(cks) : (i - 1) \notin Range(old_chunk_indices)}
    IN  [j \in 1..Cardinality(keep) |->
            cks[CHOOSE i \in keep : Cardinality({k \in keep : k < i}) = j - 1]]

\* for idx in old_chunk_indices: if idx < len(chunks): chunks[idx]["text_id"] = None
Tombstone(cks, old_chunk_indices) ==
    [i \in 1..Len(cks) |->
        IF (i - 1) \in Range(old_chunk_indices)
        THEN [cks[i] EXCEPT !.text_id = None]
        ELSE cks[i]]

\* dict.update(other)
PyUpdate(d, other) == {p \in d : \A q \in other : q[1] # p[1]} \cup other

\* a metadata branch that re-records the chunks it touches: each is marked
\* deleted and a copy with the merged metadata is appended
MergeMetadata_rerecords(cks, chunk_indices, text_id, metadata) ==
    [i \in 1..Len(cks) |->
        IF (i - 1) \in Range(chunk_indices) /\ cks[i].text_id = text_id
        THEN [cks[i] EXCEPT !.text_id = None]
        ELSE cks[i]]
    \o [i \in 1..Len(chunk_indices) |->
           [cks[chunk_indices[i] + 1] EXCEPT !.metadata = PyUpdate(@, metadata)]]

\* the metadata-only branch: update the metadata of the chunks id_map lists for
\* text_id that still carry text_id, and stamp updated_at
MergeMetadata(cks, chunk_indices, text_id, metadata) ==
    [i \in 1..Len(cks) |->
        IF (i - 1) \in Range(chunk_indices) /\ cks[i].text_id = text_id
        THEN [cks[i] EXCEPT !.metadata =
                 PyUpdate(PyUpdate(@, metadata), {<<"updated_at", Now>>})]
        ELSE cks[i]]

\* a content branch that marks the old chunks deleted even when its add_text
\* raised
Tombstoned_after_failure(a, old_chunk_indices) ==
    [a EXCEPT !.chunks = Tombstone(a.chunks, old_chunk_indices)]

\* the loop over old_chunk_indices, reached when add_text returned
Tombstoned(a, old_chunk_indices) ==
    IF a.raised THEN a
    ELSE [a EXCEPT !.chunks = Tombstone(a.chunks, old_chunk_indices)]

\* a content branch that carries the metadata of the document's first old chunk
\* over to the new chunks
UpdateContent_carries_metadata(idx, cks, idm, text_id, content, metadata, resp) ==
    Tombstoned(add_text(idx, cks, idm, text_id, content,
                        PyUpdate(cks[idm[text_id][1] + 1].metadata, metadata), resp),
               idm[text_id])

\* the content branch: add_text, then tombstone the chunks id_map listed before
UpdateContent(idx, cks, idm, text_id, content, metadata, resp) ==
    Tombstoned(add_text(idx, cks, idm, text_id, content, metadata, resp), idm[text_id])

-----------------------------------------------------------------------------
(* VectorStore.get_all_chunks_for_text *)

\* a get_all_chunks_for_text that collects every catalog entry carrying the
\* text_id, whether id_map lists it or not
get_all_chunks_for_text_scans_catalog(cks, idm, text_id) ==
    SelectSeq(cks, LAMBDA c : c.text_id = text_id)

\* for idx in chunk_indices: keep the chunk if idx is in range and the chunk
\* carries the text_id
RECURSIVE CollectChunks(_, _, _, _)
CollectChunks(cks, chunk_indices, text_id, out) ==
    IF chunk_indices = <<>> THEN out
    ELSE LET idx == Head(chunk_indices) IN
         IF idx < Len(cks) /\ cks[PyIndex(cks, idx)].text_id = text_id
         THEN CollectChunks(cks, Tail(chunk_indices), text_id,
                            Append(out, cks[PyIndex(cks, idx)]))
         ELSE CollectChunks(cks, Tail(chunk_indices), text_id, out)

get_all_chunks_for_text(cks, idm, text_id) ==
    IF text_id \notin DOMAIN idm THEN <<>>
    ELSE CollectChunks(cks, idm[text_id], text_id, <<>>)

-----------------------------------------------------------------------------
(* The state machine *)

NoSearch == [valid |-> FALSE, query |-> <<>>, limit |-> 0, outcome |-> "ok",
             raised |-> FALSE, results |-> <<>>]

\* the threads that call into one VectorStore object
Threads == {"t1", "t2"}

\* the frame of a thread that is executing no call and holds no result
Idle == [pc |-> "idle", op |-> "-"]

Call(op, id, given, content, resp, slots, raised, ret) ==
    [op |-> op, id |-> id, given |-> given, content |-> content, resp |-> resp,
     base |-> Len(index), slots |-> slots, raised |-> raised, ret |-> ret]

\* a VectorStore constructed over an empty data directory
InitVectorStore ==
    /\ up = TRUE
    /\ index = <<>>
    /\ chunks = <<>>
    /\ id_map = NoIdMap
    /\ diskIndex = MissingIndex
    /\ diskMeta = MissingMeta
    /\ last = Call("init", None, "-", <<>>, <<>>, <<>>, FALSE, FALSE)
    /\ found = NoSearch
    /\ calls = [t \in Threads |-> Idle]

\* no chunker call made yet
NoChunking == [text |-> <<>>, done |-> FALSE, chunks |-> <<>>]

\* an empty table
NoRows == <<>>

\* the domains PostgresMemoryAPI is called with
Domains == {"default", "work"}

\* no MemoryStore call made yet
NoReply == [op |-> "-"]

\* a MemoryStore over an empty database, holding the VectorStore
\* no get_embedding call made yet
NoAsk == [op |-> "-"]

InitApp ==
    /\ rows = NoRows
    /\ tables = [d \in Domains |-> NoRows]
    /\ clock = 0
    /\ reply = NoReply
    /\ cache = <<>>
    /\ asked = NoAsk
    /\ recency = <<>>
    /\ dicts = <<>>

Init == InitVectorStore /\ InitApp /\ chunked = NoChunking /\ vector_store = TRUE

Given(has_content, has_metadata) ==
    CASE has_content /\ has_metadata -> "both"
      [] has_content -> "content"
      [] has_metadata -> "metadata"
      [] OTHER -> "neither"

\* add_text(text_id, content, metadata)
AddText(text_id, content, metadata, resp) ==
    \E a \in {add_text(index, chunks, id_map, text_id, content, metadata, resp)} :
    /\ up
    /\ index' = a.index
    /\ chunks' = a.chunks
    /\ id_map' = a.id_map
    /\ IF a.raised
       THEN UNCHANGED <<diskIndex, diskMeta>>
       ELSE /\ diskIndex' = save_index(a.index)
            /\ diskMeta' = save_metadata(a.chunks, a.id_map)
    /\ last' = Call("add", text_id, "content", content, resp, a.slots, a.raised, ~a.raised)
    /\ found' = NoSearch
    /\ UNCHANGED <<up, calls>>

\* an update_text that adds the content of a text_id it does not know
UpdateText_adds_unknown(text_id, has_content, content, has_metadata, metadata, resp) ==
    \E a \in {add_text(index, chunks, id_map, text_id, content, metadata, resp)} :
    /\ up
    /\ has_content
    /\ text_id \notin DOMAIN id_map
    /\ index' = a.index
    /\ chunks' = a.chunks
    /\ id_map' = a.id_map
    /\ diskIndex' = save_index(a.index)
    /\ diskMeta' = save_metadata(a.chunks, a.id_map)
    /\ last' = Call("update", text_id, Given(has_content, has_metadata), content, resp,
                    a.slots, a.raised, ~a.raised)
    /\ found' = NoSearch
    /\ UNCHANGED <<up, calls>>

\* update_text(text_id, content, metadata); has_content / has_metadata say
\* which of the two optional arguments is not None
UpdateText(text_id, has_content, content, has_metadata, metadata, resp) ==
    \E given \in {Given(has_content, has_metadata)} :
    /\ up
    /\ found' = NoSearch
    /\ UNCHANGED <<up, calls>>
    /\ IF text_id \notin DOMAIN id_map
       THEN /\ last' = Call("update", text_id, given, content, <<>>, <<>>, FALSE, FALSE)
            /\ UNCHANGED <<index, chunks, id_map, diskIndex, diskMeta>>
       ELSE IF has_content
       THEN \E u \in {UpdateContent(index, chunks, id_map, text_id, content,
                                    IF has_metadata THEN metadata ELSE NoMeta, resp)} :
            /\ index' = u.index
            /\ chunks' = u.chunks
            /\ id_map' = u.id_map
            /\ IF u.raised
               THEN UNCHANGED <<diskIndex, diskMeta>>
               ELSE /\ diskIndex' = save_index(u.index)
                    /\ diskMeta' = save_metadata(u.chunks, u.id_map)
            /\ last' = Call("update", text_id, given, content, resp, u.slots,
                            u.raised, ~u.raised)
       ELSE IF has_metadata
       THEN /\ chunks' = MergeMetadata(chunks, id_map[text_id], text_id, metadata)
            /\ diskMeta' = save_metadata(chunks', id_map)
            /\ last' = Call("update", text_id, given, content, <<>>, <<>>, FALSE, TRUE)
            /\ UNCHANGED <<index, id_map, diskIndex>>
       ELSE /\ last' = Call("update", text_id, given, content, <<>>, <<>>, FALSE, FALSE)
            /\ UNCHANGED <<index, chunks, id_map, diskIndex, diskMeta>>

\* search(query, limit)
Search(query, limit, outcome) ==
    \E r \in {search(index, chunks, query, limit, outcome)} :
    /\ up
    /\ found' = [valid |-> TRUE, query |-> query, limit |-> limit,
                 outcome |-> outcome, raised |-> r.raised, results |-> r.results]
    /\ UNCHANGED <<up, index, chunks, id_map, diskIndex, diskMeta, last, calls>>

CrashPoints == {"index_write", "between", "metadata_write"}

Down(op, text_id, content, resp) ==
    /\ up' = FALSE
    /\ index' = <<>>
    /\ chunks' = <<>>
    /\ id_map' = NoIdMap
    /\ last' = Call(op, text_id, "content", content, resp, <<>>, FALSE, FALSE)
    /\ found' = NoSearch
    /\ UNCHANGED calls

\* the process dies while add_text saves: while faiss.write_index overwrites the
\* index file, between the two saves, or while json.dump overwrites the metadata file
AddTextCrash(text_id, content, metadata, resp, point) ==
    \E a \in {add_text(index, chunks, id_map, text_id, content, metadata, resp)} :
    /\ up
    /\ ~a.raised
    /\ diskIndex' = IF point = "index_write" THEN TornIndex ELSE save_index(a.index)
    /\ diskMeta' = IF point = "metadata_write" THEN TornMeta ELSE diskMeta
    /\ Down("add_crash", text_id, content, resp)

\* the process dies in update_text after add_text has saved and before the
\* tombstoned metadata is saved
UpdateTextCrash(text_id, content, metadata, resp) ==
    \E a \in {add_text(index, chunks, id_map, text_id, content, metadata, resp)} :
    /\ up
    /\ text_id \in DOMAIN id_map
    /\ ~a.raised
    /\ diskIndex' = save_index(a.index)
    /\ diskMeta' = save_metadata(a.chunks, a.id_map)
    /\ Down("update_crash", text_id, content, resp)

\* VectorStore.__init__ over the files as they are
Restart ==
    \E m \in {initialize_metadata(diskMeta)} :
    /\ up' = TRUE
    /\ index' = initialize_index(diskIndex)
    /\ chunks' = m.chunks
    /\ id_map' = m.id_map
    /\ last' = Call("load", None, "-", <<>>, <<>>, <<>>, FALSE, FALSE)
    /\ found' = NoSearch
    /\ UNCHANGED <<diskIndex, diskMeta, calls>>

NoText == <<>>

\* the catalog and the index have room for the chunks of content
Room(cap, n) == Len(chunks) + n <= cap /\ Len(index) + n <= cap

Fits(cap, content) == Room(cap, Len(ChunksOf(content)))

Responses(content, outcomes) == [1..Len(ChunksOf(content)) -> outcomes]

AllOk(content) == [i \in 1..Len(ChunksOf(content)) |-> "ok"]

\* add_text and update_text calls of the running process, arguments drawn from
\* the given sets
Mutations(cap, docs, texts, outcomes, flags) ==
    \/ \E d \in docs, t \in texts, m \in Metas :
          \E resp \in Responses(t, outcomes) :
             Fits(cap, t) /\ AddText(d, t, m, resp) /\ UNCHANGED AppVars
    \/ \E d \in docs, t \in texts, m \in Metas, hm \in flags :
          \E resp \in Responses(t, outcomes) :
             Fits(cap, t) /\ UpdateText(d, TRUE, t, hm, m, resp) /\ UNCHANGED AppVars
    \/ \E d \in docs, m \in Metas, hm \in flags :
          UpdateText(d, FALSE, NoText, hm, m, <<>>) /\ UNCHANGED AppVars

Searches(queries, outcomes) ==
    \E q \in queries, limit \in 1..MaxLimit, o \in outcomes :
       Search(q, limit, o) /\ UNCHANGED AppVars

Failures(cap, docs, texts) ==
    \/ \E d \in docs, t \in texts, m \in Metas, p \in CrashPoints :
          Fits(cap, t) /\ AddTextCrash(d, t, m, AllOk(t), p) /\ UNCHANGED AppVars
    \/ \E d \in docs, t \in texts, m \in Metas :
          Fits(cap, t) /\ UpdateTextCrash(d, t, m, AllOk(t)) /\ UNCHANGED AppVars
    \/ Restart /\ UNCHANGED AppVars

\* serial executions of one process from an empty store, the provider failing
\* or answering with a wrong dimension at will
NextSerial == Mutations(MaxChunks, Docs, Texts, Outcomes, {FALSE})
SpecSerial == Init /\ [][NextSerial]_vars

\* serial executions with searches; the provider answers every add_text and
\* update_text call and may fail a search's query
NextSearch ==
    \/ Mutations(MaxChunks, Docs, Texts, {"ok"}, {FALSE})
    \/ Searches(Queries, {"ok", "fail"})
SpecSearch == Init /\ [][NextSearch]_vars

\* one text that is added and re-embedded over and over, and searched
NextRefresh ==
    \/ Mutations(MaxRefresh, Docs, {TextA}, {"ok"}, {FALSE})
    \/ Searches({TextA}, {"ok"})
SpecRefresh == Init /\ [][NextRefresh]_vars

\* executions in which the process dies while saving, and is started again
NextCrash ==
    \/ Mutations(MaxChunks, {"d1"}, Texts, {"ok"}, {FALSE})
    \/ Failures(MaxChunks, {"d1"}, Texts)
SpecCrash == Init /\ [][NextCrash]_vars

\* serial executions in which the provider fails or answers with a wrong
\* dimension at will and update_text is called with and without metadata
NextFlush == Mutations(MaxChunks, Docs, Texts, Outcomes, BOOLEAN)
SpecFlush == Init /\ [][NextFlush]_vars

\* most entries of the catalog in the executions that pass metadata
MaxMeta == 2

\* the metadata mappings passed to add_text and update_text
Importance == {<<"importance", "0.9">>}
Source     == {<<"source", "chat">>}
MetaArgs   == {NoMeta, Importance, Source}

\* add_text and update_text calls with metadata; has_content / has_metadata
\* range over the ways update_text can be called
MetaMutations(cap, docs, texts, metas) ==
    \/ \E d \in docs, t \in texts, m \in metas :
          Fits(cap, t) /\ AddText(d, t, m, AllOk(t)) /\ UNCHANGED AppVars
    \/ \E d \in docs, t \in texts, m \in metas, hm \in BOOLEAN :
          Fits(cap, t) /\ UpdateText(d, TRUE, t, hm, m, AllOk(t)) /\ UNCHANGED AppVars
    \/ \E d \in docs, m \in metas, hm \in BOOLEAN :
          UpdateText(d, FALSE, NoText, hm, m, <<>>) /\ UNCHANGED AppVars

\* serial executions in which documents carry metadata
NextMeta == MetaMutations(MaxMeta, Docs, Texts, MetaArgs)
SpecMeta == Init /\ [][NextMeta]_vars

\* texts whose paragraphs the chunker drops, all or some of them
ShortTexts == {EmptyText, TextC, TextCC, TextAC}

\* serial executions over texts the chunker yields no chunk or fewer chunks
\* than paragraphs for
NextShort == Mutations(MaxChunks, Docs, ShortTexts, {"ok"}, {FALSE})
SpecShort == Init /\ [][NextShort]_vars

-----------------------------------------------------------------------------
(* SimpleChunker called on its own *)

\* most sentences of a paragraph handed to the chunker
MaxSentences == 3

\* the lengths of the sentences: under min_size, and such that two or three of
\* them pass max_size, just reach it, or stay under it
SentenceLens == {20, 400, 600, 990}

\* the words of the i-th sentence of a paragraph
Words == <<"s1", "s2", "s3", "s4", "s5">>

\* the paragraph whose sentences have the lengths lens
Paragraph(lens) == [i \in 1..Len(lens) |-> S(Words[i], lens[i])]

Paragraphs ==
    {Paragraph(lens) : lens \in UNION {[1..n -> SentenceLens] : n \in 1..MaxSentences}}

\* one paragraph, or one followed by a short or an ordinary paragraph
ChunkerTexts ==
    {<<p>> : p \in Paragraphs}
        \cup {<<p, q>> : p \in Paragraphs, q \in {<<S("c", 10)>>, <<S("a", 60)>>}}

\* a text of the given set is about to be handed to the chunker
InitChunker ==
    /\ InitVectorStore
    /\ InitApp
    /\ vector_store = TRUE
    /\ chunked \in {[text |-> t, done |-> FALSE, chunks |-> <<>>] : t \in ChunkerTexts}

\* SimpleChunker.chunk_by_paragraph(text)
ChunkByParagraph ==
    /\ ~chunked.done
    /\ chunked' = [chunked EXCEPT !.done = TRUE,
                                  !.chunks = chunk_by_paragraph(chunked.text)]
    /\ UNCHANGED <<up, index, chunks, id_map, diskIndex, diskMeta, last, found, calls,
                   rows, tables, clock, reply, vector_store, cache, asked, recency, dicts>>

\* the chunker called on each text of the given set
NextChunker == ChunkByParagraph
SpecChunker == InitChunker /\ [][NextChunker]_vars

-----------------------------------------------------------------------------
(* add_text, update_text and search statement by statement: several threads   *)
(* call into one VectorStore object, which holds no lock, and a thread may be  *)
(* suspended between any two statements that touch the index, the catalog,     *)
(* id_map or the files.                                                        *)

\* the frame of add_text on entering its loop (lines 177-188); old_chunk_indices
\* is what update_text read from id_map before it called add_text
AddFrame(op, text_id, cs, metadata, old_chunk_indices) ==
    [pc |-> "index_add", op |-> op, text_id |-> text_id, chunks |-> cs,
     embeddings |-> get_embeddings(cs, [i \in 1..Len(cs) |-> "ok"]),
     metadata |-> metadata, i |-> 1, chunk_index |-> -1, chunk_indices |-> <<>>,
     old_chunk_indices |-> old_chunk_indices]

StoreVars == <<up, index, chunks, id_map, diskIndex, diskMeta, last, found>>

\* add_text is called: chunk the content and fetch the embeddings
BeginAdd(t, text_id, content, metadata) ==
    /\ up
    /\ calls[t].pc = "idle"
    /\ calls' = [calls EXCEPT ![t] =
                    AddFrame("add", text_id, ChunksOf(content), metadata, <<>>)]
    /\ UNCHANGED StoreVars

\* update_text is called with content: return False for an unknown text_id,
\* else read old_chunk_indices and call add_text
BeginUpdate(t, text_id, content, metadata) ==
    /\ up
    /\ calls[t].pc = "idle"
    /\ calls' = [calls EXCEPT ![t] =
                    IF text_id \notin DOMAIN id_map THEN Idle
                    ELSE AddFrame("update", text_id, ChunksOf(content), metadata,
                                  id_map[text_id])]
    /\ UNCHANGED StoreVars

\* faiss.normalize_L2(embedding_np); self.index.add(embedding_np)
IndexAdd(t) ==
    /\ calls[t].pc = "index_add"
    /\ index' = Append(index, normalize_L2(calls[t].embeddings[calls[t].i]))
    /\ calls' = [calls EXCEPT ![t].pc = "read_len"]
    /\ UNCHANGED <<up, chunks, id_map, diskIndex, diskMeta, last, found>>

\* chunk_index = len(self.metadata["chunks"]); chunk_indices.append(chunk_index)
ReadChunkIndex(t) ==
    /\ calls[t].pc = "read_len"
    /\ calls' = [calls EXCEPT ![t].pc = "append",
                              ![t].chunk_index = Len(chunks),
                              ![t].chunk_indices = Append(@, Len(chunks))]
    /\ UNCHANGED StoreVars

\* self.metadata["chunks"].append(chunk_metadata), and the loop's next round
AppendChunk(t) ==
    /\ calls[t].pc = "append"
    /\ chunks' = Append(chunks, [chunk_index |-> calls[t].chunk_index,
                                 text_id     |-> calls[t].text_id,
                                 chunk_num   |-> calls[t].i - 1,
                                 content     |-> calls[t].chunks[calls[t].i],
                                 metadata    |-> calls[t].metadata,
                                 created_at  |-> Now])
    /\ calls' = [calls EXCEPT ![t].i = @ + 1,
                              ![t].pc = IF calls[t].i < Len(calls[t].chunks)
                                        THEN "index_add" ELSE "id_map"]
    /\ UNCHANGED <<up, index, id_map, diskIndex, diskMeta, last, found>>

\* self.metadata["id_map"][text_id] = chunk_indices
SetIdMap(t) ==
    /\ calls[t].pc = "id_map"
    /\ id_map' = (calls[t].text_id :> calls[t].chunk_indices) @@ id_map
    /\ calls' = [calls EXCEPT ![t].pc = "save_index"]
    /\ UNCHANGED <<up, index, chunks, diskIndex, diskMeta, last, found>>

\* self._save_index()
SaveIndex(t) ==
    /\ calls[t].pc = "save_index"
    /\ diskIndex' = save_index(index)
    /\ calls' = [calls EXCEPT ![t].pc = "save_metadata"]
    /\ UNCHANGED <<up, index, chunks, id_map, diskMeta, last, found>>

\* self._save_metadata() and the return of add_text: to its caller, or into
\* update_text
SaveMetadata(t) ==
    /\ calls[t].pc = "save_metadata"
    /\ diskMeta' = save_metadata(chunks, id_map)
    /\ calls' = [calls EXCEPT ![t] = IF calls[t].op = "add" THEN Idle
                                     ELSE [@ EXCEPT !.pc = "mark_deleted"]]
    /\ UNCHANGED <<up, index, chunks, id_map, diskIndex, last, found>>

\* update_text: for idx in old_chunk_indices: ... ["text_id"] = None
MarkDeleted(t) ==
    /\ calls[t].pc = "mark_deleted"
    /\ chunks' = Tombstone(chunks, calls[t].old_chunk_indices)
    /\ calls' = [calls EXCEPT ![t].pc = "save_deleted"]
    /\ UNCHANGED <<up, index, id_map, diskIndex, diskMeta, last, found>>

\* update_text: self._save_metadata(); return True
SaveDeleted(t) ==
    /\ calls[t].pc = "save_deleted"
    /\ diskMeta' = save_metadata(chunks, id_map)
    /\ calls' = [calls EXCEPT ![t] = Idle]
    /\ UNCHANGED <<up, index, chunks, id_map, diskIndex, last, found>>

\* some other thread's add_text has appended a vector to the index and not yet
\* the chunk to the catalog
MidAppend(t) == \E u \in Threads \ {t} : calls[u].pc \in {"read_len", "append"}

\* search is called: embed the query and ask the index for its neighbours
BeginSearch(t, query, limit) ==
    /\ up
    /\ calls[t].pc = "idle"
    /\ calls' = [calls EXCEPT ![t] =
                    [pc |-> "collect", op |-> "search", query |-> query,
                     limit |-> limit, mid |-> MidAppend(t),
                     candidates |-> Candidates(index,
                                       normalize_L2(get_embedding(query, "ok")), limit)]]
    /\ UNCHANGED StoreVars

\* search: the loop over the neighbours, reading the catalog, and the return
CollectResults(t) ==
    /\ calls[t].pc = "collect"
    /\ \E r \in {SearchLoop(chunks, calls[t].candidates, 1, calls[t].limit, <<>>, {})} :
       calls' = [calls EXCEPT ![t] =
                    [pc |-> "idle", op |-> "search", query |-> calls[t].query,
                     limit |-> calls[t].limit, mid |-> calls[t].mid,
                     candidates |-> calls[t].candidates,
                     raised |-> r.raised, results |-> r.results]]
    /\ UNCHANGED StoreVars

\* the chunks a thread's add_text has yet to append to the index
Unadded(t) ==
    CASE calls[t].pc = "index_add" -> Len(calls[t].chunks) - calls[t].i + 1
      [] calls[t].pc \in {"read_len", "append"} -> Len(calls[t].chunks) - calls[t].i
      [] OTHER -> 0

\* the index has room for n more chunks besides those of the calls in progress
RaceRoom(cap, n) == Len(index) + Unadded("t1") + Unadded("t2") + n <= cap

\* no thread is inside an add_text or update_text for text_id
NotInProgress(text_id) ==
    \A u \in Threads :
        calls[u].op \in {"add", "update"} => calls[u].text_id # text_id

\* one statement of an add_text or update_text in progress
Statement(t) ==
    \/ IndexAdd(t)
    \/ ReadChunkIndex(t)
    \/ AppendChunk(t)
    \/ SetIdMap(t)
    \/ SaveIndex(t)
    \/ SaveMetadata(t)
    \/ MarkDeleted(t)
    \/ SaveDeleted(t)

\* most entries of the index in the executions with several threads
MaxRace == 3

RaceTexts == {TextA, TextB}

\* two threads that add documents not added before and update documents with
\* new content, every call running statement by statement
NextRace ==
    \/ \E t \in Threads, d \in Docs, c \in RaceTexts :
          /\ RaceRoom(MaxRace, Len(ChunksOf(c)))
          /\ d \notin DOMAIN id_map
          /\ NotInProgress(d)
          /\ BeginAdd(t, d, c, NoMeta)
          /\ UNCHANGED AppVars
    \/ \E t \in Threads, d \in Docs, c \in RaceTexts :
          /\ RaceRoom(MaxRace, Len(ChunksOf(c)))
          /\ BeginUpdate(t, d, c, NoMeta)
          /\ UNCHANGED AppVars
    \/ \E t \in Threads : Statement(t) /\ UNCHANGED AppVars
SpecRace == Init /\ [][NextRace]_vars

\* one thread that adds and updates statement by statement, and one thread
\* that searches meanwhile
NextRead ==
    \/ \E d \in Docs, c \in RaceTexts :
          /\ RaceRoom(MaxRace, Len(ChunksOf(c)))
          /\ d \notin DOMAIN id_map
          /\ BeginAdd("t1", d, c, NoMeta)
          /\ UNCHANGED AppVars
    \/ \E d \in Docs, c \in RaceTexts :
          /\ RaceRoom(MaxRace, Len(ChunksOf(c)))
          /\ BeginUpdate("t1", d, c, NoMeta)
          /\ UNCHANGED AppVars
    \/ Statement("t1") /\ UNCHANGED AppVars
    \/ \E q \in Queries, limit \in 1..MaxLimit :
          BeginSearch("t2", q, limit) /\ UNCHANGED AppVars
    \/ CollectResults("t2") /\ UNCHANGED AppVars
SpecRead == Init /\ [][NextRead]_vars

-----------------------------------------------------------------------------
(* MemoryStore (memory_server.py; SQLiteMemoryAPI has the same methods): the  *)
(* memories table of an SQLite database, and the VectorStore it forwards to.  *)
(* Each method opens its own connection and commits before it returns.        *)

\* the clock ticks this many times per millisecond
TicksPerMs == 2

\* time.time()
Time == clock

\* f"mem_{int(time.time() * 1000)}"
MemoryId(t) == "mem_" \o ToString(t \div TicksPerMs)

\* metadata.update({"created_at": timestamp, "updated_at": timestamp})
Stamped(metadata, timestamp) ==
    PyUpdate(metadata, {<<"created_at", timestamp>>, <<"updated_at", timestamp>>})

\* a call of a MemoryStore or PostgresMemoryAPI method: its arguments (domain
\* is None for a MemoryStore, which has none), whether it raised, and what it
\* returned
Reply(op, args, raised, ret) ==
    [op |-> op, args |-> args, raised |-> raised, ret |-> ret]

\* INSERT INTO memories: id is the PRIMARY KEY, a second row with the same id
\* raises sqlite3.IntegrityError
Insert(table, id, content, metadata, timestamp) ==
    IF id \in DOMAIN table
    THEN [raised |-> TRUE, table |-> table]
    ELSE [raised |-> FALSE,
          table  |-> (id :> [content |-> content, metadata |-> metadata,
                             created_at |-> timestamp, updated_at |-> timestamp])
                         @@ table]

\* a store_memory that calls add_text outside any try: what add_text raises,
\* store_memory raises
StoreMemory_unguarded(content, metadata, resp) ==
    \E memory_id \in {MemoryId(Time)} :
    \E args \in {[content |-> content, metadata |-> metadata, domain |-> None]} :
    \E ins \in {Insert(rows, memory_id, content, Stamped(metadata, Time), Time)} :
    /\ rows' = ins.table
    /\ IF ins.raised
       THEN /\ reply' = Reply("store", args, TRUE, None)
            /\ UNCHANGED StoreVars
       ELSE IF vector_store
       THEN /\ AddText(memory_id, content, Stamped(metadata, Time), resp)
            /\ reply' = IF last'.raised THEN Reply("store", args, TRUE, None)
                        ELSE Reply("store", args, FALSE, memory_id)
       ELSE /\ reply' = Reply("store", args, FALSE, memory_id)
            /\ UNCHANGED StoreVars
    /\ UNCHANGED <<calls, chunked, tables, clock, vector_store, cache, asked, recency, dicts>>

\* store_memory(content, metadata); resp is how the provider answers for each
\* chunk should the vector store be called
StoreMemory(content, metadata, resp) ==
    \E memory_id \in {MemoryId(Time)} :
    \E args \in {[content |-> content, metadata |-> metadata, domain |-> None]} :
    \E ins \in {Insert(rows, memory_id, content, Stamped(metadata, Time), Time)} :
    /\ rows' = ins.table
    /\ IF ins.raised
       THEN /\ reply' = Reply("store", args, TRUE, None)
            /\ UNCHANGED StoreVars
       ELSE /\ reply' = Reply("store", args, FALSE, memory_id)
            /\ IF vector_store
               THEN AddText(memory_id, content, Stamped(metadata, Time), resp)
               ELSE UNCHANGED StoreVars
    /\ UNCHANGED <<calls, chunked, tables, clock, vector_store, cache, asked, recency, dicts>>

\* content LIKE '%query%', for a query of one paragraph: its sentences are
\* consecutive sentences of a paragraph of the content
Like(content, query) ==
    \/ query[1] = <<>>
    \/ \E i \in 1..Len(content) :
          \E k \in 0..(Len(content[i]) - Len(query[1])) :
             SubSeq(content[i], k + 1, k + Len(query[1])) = query[1]

\* the ways to list the ids of a set, latest updated_at first; rows updated
\* at the same time come in either order
Orderings(table, ids) ==
    {o \in [1..Cardinality(ids) -> ids] :
        /\ \A i, j \in DOMAIN o : i # j => o[i] # o[j]
        /\ \A i, j \in DOMAIN o :
              i < j => table[o[i]].updated_at >= table[o[j]].updated_at}

\* SELECT id, content, metadata FROM memories WHERE content LIKE ? ORDER BY
\* updated_at DESC LIMIT ?: the results the statement may return
text_search(table, query, limit) ==
    {[i \in 1..(IF Len(o) < limit THEN Len(o) ELSE limit) |->
         [id |-> o[i], content |-> table[o[i]].content,
          metadata |-> table[o[i]].metadata]] :
       o \in Orderings(table, {id \in DOMAIN table : Like(table[id].content, query)})}

\* "Convert to standard format": id, content, metadata and score of each hit
Standard(vector_results) ==
    [i \in 1..Len(vector_results) |->
        [id       |-> vector_results[i].id,
         content  |-> vector_results[i].content,
         metadata |-> vector_results[i].metadata,
         score    |-> vector_results[i].score]]

\* a retrieve_memories without the try / except around the vector search
VectorResults_uncaught(f) ==
    [raised |-> f.raised, results |-> Standard(f.results)]

\* what the try block of retrieve_memories leaves: the converted results; an
\* exception of the vector search is caught and leaves none
VectorResults(f) ==
    [raised |-> FALSE, results |-> IF f.raised THEN <<>> ELSE Standard(f.results)]

\* retrieve_memories(query, limit, use_vector); outcome is how the provider
\* answers for the query should the vector store be called
RetrieveMemories(query, limit, use_vector, outcome) ==
    \E args \in {[query |-> query, limit |-> limit, use_vector |-> use_vector,
                   domain |-> None]} :
    /\ IF vector_store /\ use_vector
       THEN /\ Search(query, limit, outcome)
            /\ \E v \in {VectorResults(found')} :
                  IF v.raised
                  THEN reply' = Reply("retrieve", args, TRUE, <<>>)
                  ELSE IF v.results # <<>>
                  THEN reply' = Reply("retrieve", args, FALSE, v.results)
                  ELSE \E r \in text_search(rows, query, limit) :
                          reply' = Reply("retrieve", args, FALSE, r)
       ELSE /\ UNCHANGED StoreVars
            /\ \E r \in text_search(rows, query, limit) :
                  reply' = Reply("retrieve", args, FALSE, r)
    /\ UNCHANGED <<calls, chunked, rows, tables, clock, vector_store,
                   cache, asked, recency, dicts>>

\* update_memory(memory_id, content, metadata); has_content / has_metadata
\* tell which of the two is not None
UpdateMemory(memory_id, has_content, content, has_metadata, metadata, resp) ==
    \E args \in {[memory_id |-> memory_id, given |-> Given(has_content, has_metadata),
                   content |-> content, metadata |-> metadata, domain |-> None]} :
    /\ IF memory_id \notin DOMAIN rows
       THEN /\ reply' = Reply("update", args, FALSE, FALSE)
            /\ UNCHANGED <<rows, StoreVars>>
       ELSE \E new_metadata \in
                {PyUpdate(IF has_metadata
                          THEN PyUpdate(rows[memory_id].metadata, metadata)
                          ELSE rows[memory_id].metadata,
                          {<<"updated_at", Time>>})} :
            /\ rows' = [rows EXCEPT ![memory_id].content =
                                        IF has_content THEN content ELSE @,
                                    ![memory_id].metadata = new_metadata,
                                    ![memory_id].updated_at = Time]
            /\ reply' = Reply("update", args, FALSE, TRUE)
            /\ IF vector_store /\ (has_content \/ has_metadata)
               THEN UpdateText(memory_id, has_content, content, TRUE, new_metadata, resp)
               ELSE UNCHANGED StoreVars
    /\ UNCHANGED <<calls, chunked, tables, clock, vector_store, cache, asked, recency, dicts>>

\* time passes
Tick(latest) ==
    /\ clock < latest
    /\ clock' = clock + 1
    /\ UNCHANGED <<StoreVars, calls, chunked, rows, tables, reply, vector_store,
                   cache, asked, recency, dicts>>

\* the latest time of the clock
MaxClock == 2

\* most entries of the index and the catalog of a MemoryStore's VectorStore
MaxStored == 2

\* the contents and queries MemoryStore is called with
MemoryTexts == {TextA, TextB}

\* the ids update_memory is called with: those store_memory can have returned
MemoryIds == {MemoryId(t) : t \in 0..MaxClock}

\* a MemoryStore over an empty database, constructed with or without a
\* VectorStore
InitMemory ==
    /\ InitVectorStore
    /\ InitApp
    /\ chunked = NoChunking
    /\ vector_store \in BOOLEAN

\* store_memory calls, the provider answering each chunk in one of the ways
Stores(cap, texts, metas, outcomes) ==
    \E c \in texts, m \in metas :
       \E resp \in Responses(c, outcomes) :
          Fits(cap, c) /\ StoreMemory(c, m, resp)

\* retrieve_memories calls
Retrievals(queries, outcomes) ==
    \E q \in queries, limit \in 1..MaxLimit, u \in BOOLEAN, o \in outcomes :
       RetrieveMemories(q, limit, u, o)

\* update_memory calls, with a new content, new metadata, both or neither
Updates(cap, texts, metas, outcomes) ==
    \/ \E id \in MemoryIds, c \in texts, hm \in BOOLEAN, m \in metas :
          \E resp \in Responses(c, outcomes) :
             /\ Fits(cap, c)
             /\ UpdateMemory(id, TRUE, c, hm, IF hm THEN m ELSE NoMeta, resp)
    \/ \E id \in MemoryIds, hm \in BOOLEAN, m \in metas :
          UpdateMemory(id, FALSE, NoText, hm, IF hm THEN m ELSE NoMeta, <<>>)

\* memories are stored and retrieved, by vector search or by text search, the
\* provider answering or not
NextRetrieve ==
    \/ Stores(MaxStored, MemoryTexts, {NoMeta}, {"ok", "baddim"})
    \/ Retrievals({TextA, TextB}, {"ok", "baddim"})
    \/ Tick(MaxClock)
SpecRetrieve == InitMemory /\ [][NextRetrieve]_vars

\* memories are stored and updated with metadata
NextMemory ==
    \/ Stores(MaxStored, MemoryTexts, {NoMeta, Source}, {"ok"})
    \/ Updates(MaxStored, MemoryTexts, {NoMeta, Importance}, {"ok"})
    \/ Tick(MaxClock)
SpecMemory == InitMemory /\ [][NextMemory]_vars

\* memories are stored and updated while the vector store accepts or refuses
\* what the provider answers
NextIndexed ==
    \/ Stores(MaxStored, {TextA}, {NoMeta}, {"ok", "baddim"})
    \/ Updates(MaxStored, {TextB}, {NoMeta}, {"ok", "baddim"})
    \/ Tick(MaxClock)
SpecIndexed == InitMemory /\ [][NextIndexed]_vars

-----------------------------------------------------------------------------
(* PostgresMemoryAPI (postgres_memory_api.py): one table <domain>_memories   *)
(* per domain; the embedding is a column of the row.  vector_store tells     *)
(* whether the object holds an embedding client (ollama_embeddings).  The    *)
(* timestamp columns, which the table definition fills, are left out.        *)

\* a row stored without embedding
NoEmbedding == Vec(0, 0, 0)

\* the embedding column: get_embedding(content) if there is a client
PgEmbedding(content, outcome) ==
    IF vector_store THEN get_embedding(content, outcome) ELSE NoEmbedding

\* the id column is the primary key of a domain's table: a second row with
\* the same id is refused
PgUniqueViolation(table, id) == id \in DOMAIN table

\* store_memory(content, metadata, domain)
PgStoreMemory(content, metadata, domain, outcome) ==
    \E memory_id \in {MemoryId(Time)} :
    \E args \in {[content |-> content, metadata |-> metadata, domain |-> domain]} :
    /\ IF PgUniqueViolation(tables[domain], memory_id)
       THEN /\ reply' = Reply("store", args, TRUE, None)
            /\ UNCHANGED tables
       ELSE /\ reply' = Reply("store", args, FALSE, memory_id)
            /\ tables' = [tables EXCEPT ![domain] =
                             (memory_id :> [content   |-> content,
                                            embedding |-> PgEmbedding(content, outcome),
                                            metadata  |-> Stamped(metadata, Time)])
                                 @@ @]
    /\ UNCHANGED <<StoreVars, calls, chunked, rows, clock, vector_store,
                   cache, asked, recency, dicts>>

\* the row update_memory leaves: with content and metadata the metadata
\* column is set to the argument, with metadata alone it is merged
\* (metadata || %s), with content alone it is left
PgUpdatedRow(row, has_content, content, has_metadata, metadata, outcome) ==
    [content   |-> IF has_content THEN content ELSE row.content,
     embedding |-> IF has_content /\ vector_store
                   THEN get_embedding(content, outcome) ELSE row.embedding,
     metadata  |-> IF has_metadata
                   THEN IF has_content
                        THEN PyUpdate(metadata, {<<"updated_at", Time>>})
                        ELSE PyUpdate(row.metadata,
                                      PyUpdate(metadata, {<<"updated_at", Time>>}))
                   ELSE row.metadata]

\* update_memory(memory_id, content, metadata, domain)
PgUpdateMemory(memory_id, has_content, content, has_metadata, metadata, domain, outcome) ==
    \E args \in {[memory_id |-> memory_id, given |-> Given(has_content, has_metadata),
                   content |-> content, metadata |-> metadata, domain |-> domain]} :
    /\ IF memory_id \notin DOMAIN tables[domain]
       THEN /\ reply' = Reply("update", args, FALSE, FALSE)
            /\ UNCHANGED tables
       ELSE /\ reply' = Reply("update", args, FALSE, TRUE)
            /\ tables' = [tables EXCEPT ![domain][memory_id] =
                             PgUpdatedRow(@, has_content, content,
                                          has_metadata, metadata, outcome)]
    /\ UNCHANGED <<StoreVars, calls, chunked, rows, clock, vector_store,
                   cache, asked, recency, dicts>>

\* the tables hold fewer than cap rows
PgRoom(cap) ==
    Cardinality(UNION {{<<d, id>> : id \in DOMAIN tables[d]} : d \in Domains}) < cap

\* store_memory and update_memory calls on the domains, as the tools make
\* them: update_memory always passes a metadata mapping
PgCalls(cap, domains, texts, metas, outcomes) ==
    \/ \E c \in texts, d \in domains, o \in outcomes :
          PgRoom(cap) /\ PgStoreMemory(c, Source, d, o)
    \/ \E id \in MemoryIds, hc \in BOOLEAN, c \in texts, m \in metas,
           d \in domains, o \in outcomes :
          PgUpdateMemory(id, hc, IF hc THEN c ELSE NoText, TRUE, m, d, o)

\* memories stored with their source in either domain, and updated with a
\* new content, a new importance, or both
NextPostgres ==
    \/ PgCalls(MaxStored, Domains, {TextA, TextB}, {NoMeta, Importance}, {"ok"})
    \/ Tick(MaxClock)
SpecPostgres == InitMemory /\ [][NextPostgres]_vars

-----------------------------------------------------------------------------
(* The dict objects behind the "metadata" of the catalog entries: add_text   *)
(* stores the dict it was passed, not a copy, and the metadata branch of     *)
(* update_text changes the stored dict in place.  dicts names, for each      *)
(* catalog entry, the object that is its "metadata": 0 is a dict the caller  *)
(* keeps and passes to more than one call, n > 0 a dict first stored in      *)
(* slot n.                                                                   *)

CallerDict == 0

\* the dict a call passes as metadata: the one the caller keeps, or one made
\* for the call
DictArgs == {"kept", "made"}

\* the value of the dict the caller keeps: what the caller put in it, with
\* every change made to it since in a catalog entry that holds it
KeptValue ==
    IF \E s \in 1..Len(dicts) : dicts[s] = CallerDict
    THEN chunks[CHOOSE s \in 1..Len(dicts) : dicts[s] = CallerDict].metadata
    ELSE Source

\* "metadata": metadata or {} -- the object stored in slot s by a call whose
\* first new slot is first: the dict passed, or a new empty dict for each
\* entry when the dict passed is empty or None
StoredDict(arg, value, first, s) ==
    IF value = NoMeta THEN s
    ELSE IF arg = "kept" THEN CallerDict ELSE first

\* the objects of the catalog after a call that appended entries
Recorded(arg, value) ==
    [s \in 1..Len(chunks') |->
        IF s <= Len(dicts) THEN dicts[s]
        ELSE StoredDict(arg, value, Len(dicts) + 1, s)]

\* chunk["metadata"].update(metadata) changes an object: every entry whose
\* "metadata" is that object shows the change
InPlace(before, after, ds) ==
    [s \in 1..Len(after) |->
        LET changed == {t \in 1..Len(before) :
                           ds[t] = ds[s] /\ after[t].metadata # before[t].metadata}
        IN  IF changed = {} THEN after[s]
            ELSE [after[s] EXCEPT !.metadata = after[CHOOSE t \in changed : TRUE].metadata]]

\* add_text(text_id, content, metadata), metadata the dict the caller keeps or
\* a dict with the value made
AddTextOf(text_id, content, arg, made, resp) ==
    \E value \in {IF arg = "kept" THEN KeptValue ELSE made} :
    /\ AddText(text_id, content, value, resp)
    /\ dicts' = Recorded(arg, value)

\* update_text(text_id, content)
UpdateContentOf(text_id, content, resp) ==
    /\ UpdateText(text_id, TRUE, content, FALSE, NoMeta, resp)
    /\ dicts' = Recorded("made", NoMeta)

\* update_text(text_id, metadata=metadata), metadata a dict made for the call
UpdateMetadataOf(text_id, metadata) ==
    IF text_id \notin DOMAIN id_map
    THEN UpdateText(text_id, FALSE, NoText, TRUE, metadata, <<>>) /\ UNCHANGED dicts
    ELSE /\ up
         /\ chunks' = InPlace(chunks,
                              MergeMetadata(chunks, id_map[text_id], text_id, metadata),
                              dicts)
         /\ diskMeta' = save_metadata(chunks', id_map)
         /\ last' = Call("update", text_id, "metadata", NoText, <<>>, <<>>, FALSE, TRUE)
         /\ found' = NoSearch
         /\ UNCHANGED <<up, calls, index, id_map, diskIndex, dicts>>

\* what a call into a VectorStore leaves as it is, the dict objects aside
FrameVars == <<chunked, rows, tables, clock, reply, vector_store, cache, asked, recency>>

\* serial executions of one process whose caller passes dicts of its own
NextAlias ==
    \/ \E d \in Docs, t \in {TextA, TextB}, arg \in DictArgs, m \in {NoMeta, Importance} :
          Fits(MaxMeta, t) /\ AddTextOf(d, t, arg, m, AllOk(t)) /\ UNCHANGED FrameVars
    \/ \E d \in Docs, t \in {TextA, TextB} :
          Fits(MaxMeta, t) /\ UpdateContentOf(d, t, AllOk(t)) /\ UNCHANGED FrameVars
    \/ \E d \in Docs, m \in {Importance, Source} :
          UpdateMetadataOf(d, m) /\ UNCHANGED FrameVars
SpecAlias == Init /\ [][NextAlias]_vars

-----------------------------------------------------------------------------
(* OllamaEmbeddings of ollama_embeddings.py: the client with a cache of the  *)
(* embeddings it fetched.  The cache is a dict, which keeps its keys in the  *)
(* order they were inserted: a sequence of entries, oldest first.            *)

\* self._cache_max_size
CacheMaxSize == 100

\* the i-th text the client is asked for: one sentence of i characters
CacheText(i) == << <<S("t", i)>> >>

\* cache_key = hash(text); the texts of the model hash to distinct keys
Hash(text) == StrLen(text[1])

\* what the provider answers for a text when the request succeeds
Answer(text, outcome) ==
    Vec(IF outcome = "baddim" THEN EmbeddingDim + 1 ELSE EmbeddingDim, Hash(text), 1)

\* the keys of the cache
CacheKeys(c) == {c[i].key : i \in 1..Len(c)}

\* self._embedding_cache[cache_key]
CacheGet(c, key) == c[CHOOSE i \in 1..Len(c) : c[i].key = key].embedding

\* a _cache_embedding that inserts without making room
cache_embedding_unbounded(c, key, embedding) ==
    Append(c, [key |-> key, embedding |-> embedding])

\* _cache_embedding(key, embedding): with max_size entries or more, delete the
\* first key of the dict; then insert
cache_embedding(c, key, embedding) ==
    Append(IF Len(c) >= CacheMaxSize THEN Tail(c) ELSE c,
           [key |-> key, embedding |-> embedding])

\* a get_embedding that caches the fallback vector of a failed request
Fetched_caches_fallback(c, text, outcome) ==
    [cache     |-> cache_embedding(c, Hash(text),
                                   IF outcome = "fail" THEN ZeroVector
                                   ELSE Answer(text, outcome)),
     ret       |-> IF outcome = "fail" THEN ZeroVector ELSE Answer(text, outcome),
     hit       |-> FALSE,
     contacted |-> TRUE]

\* the try block of get_embedding: post the request; cache and return the
\* answer, or return the zero vector when the request raises
Fetched(c, text, outcome) ==
    IF outcome = "fail"
    THEN [cache |-> c, ret |-> ZeroVector, hit |-> FALSE, contacted |-> TRUE]
    ELSE [cache     |-> cache_embedding(c, Hash(text), Answer(text, outcome)),
          ret       |-> Answer(text, outcome),
          hit       |-> FALSE,
          contacted |-> TRUE]

\* get_embedding(text) of the caching client
cached_get_embedding(c, text, outcome) ==
    IF Hash(text) \in CacheKeys(c)
    THEN [cache |-> c, ret |-> CacheGet(c, Hash(text)), hit |-> TRUE,
          contacted |-> FALSE]
    ELSE Fetched(c, text, outcome)

\* the order of last use after a call for key that left the cache c
Used(order, c, key) ==
    LET keys == CacheKeys(c) IN
    IF key \in keys
    THEN SelectSeq(order, LAMBDA k : k \in keys /\ k # key) \o <<key>>
    ELSE SelectSeq(order, LAMBDA k : k \in keys)

\* get_embeddings(texts): get_embedding for one text after the other
RECURSIVE cached_get_embeddings(_, _, _, _, _)
cached_get_embeddings(c, order, texts, outcomes, done) ==
    IF texts = <<>> THEN [cache |-> c, order |-> order, calls |-> done]
    ELSE LET g == cached_get_embedding(c, Head(texts), Head(outcomes)) IN
         cached_get_embeddings(g.cache, Used(order, g.cache, Hash(Head(texts))),
                               Tail(texts), Tail(outcomes),
                               Append(done, [text |-> Head(texts),
                                             outcome |-> Head(outcomes),
                                             ret |-> g.ret,
                                             stored |-> Hash(Head(texts)) \in CacheKeys(g.cache),
                                             hit |-> g.hit,
                                             contacted |-> g.contacted]))

\* get_embedding(text) / get_embeddings(texts) is called on the client
GetEmbeddings(op, texts, outcomes) ==
    \E g \in {cached_get_embeddings(cache, recency, texts, outcomes, <<>>)} :
    /\ cache' = g.cache
    /\ recency' = g.order
    /\ asked' = [op |-> op, calls |-> g.calls]
    /\ UNCHANGED <<StoreVars, calls, chunked, rows, tables, clock, reply, vector_store,
                   dicts>>

\* most distinct texts the client is asked for
MaxTexts == 102

\* the text asked for next: the one after the newest cached, and, once the
\* cache is full, the oldest cached
AskTexts ==
    {CacheText(i) : i \in
        (IF cache = <<>> THEN {1}
         ELSE {cache[Len(cache)].key + 1}
                  \cup (IF Len(cache) >= CacheMaxSize THEN {cache[1].key} ELSE {}))
            \cap (1..MaxTexts)}

\* a client with an empty cache
InitCache ==
    /\ InitVectorStore
    /\ InitApp
    /\ chunked = NoChunking
    /\ vector_store = TRUE

NextCache ==
    \/ \E t \in AskTexts, o \in {"ok", "fail"} :
          GetEmbeddings("get_embedding", <<t>>, <<o>>)
    \/ \E t1, t2 \in AskTexts, o \in {"ok", "fail"} :
          GetEmbeddings("get_embeddings", <<t1, t2>>, <<o, "ok">>)
SpecCache == InitCache /\ [][NextCache]_vars

-----------------------------------------------------------------------------
(* Properties of search *)

\* the doc_ids a search returned
ResultIds(results) == {results[i].id : i \in 1..Len(results)}

\* the catalog entry a result was read from
Resolved(r) == chunks[PyIndex(chunks, r.chunk_index)]

\* the live catalog entries: those whose text_id has not been set to None
Live == {s \in 1..Len(chunks) : chunks[s].text_id # None}

\* C1: a search returns no two results with the same doc_id, and every result
\* is the content of a catalog entry that is not tombstoned and belongs to the
\* doc_id reported
C1_SearchDistinctAndLive ==
    found.valid =>
        \A i \in 1..Len(found.results) :
            /\ \A j \in 1..Len(found.results) :
                   i # j => found.results[i].id # found.results[j].id
            /\ found.results[i].id # None
            /\ PyIndex(chunks, found.results[i].chunk_index) \in Live
            /\ Resolved(found.results[i]).text_id = found.results[i].id
            /\ Resolved(found.results[i]).content = found.results[i].content

\* a search for up to two documents that returned one, while the catalog holds
\* a tombstoned chunk and two live chunks of the document returned
C1_Witness ==
    /\ found.valid
    /\ found.limit = 2
    /\ Len(found.results) = 1
    /\ \E s \in 1..Len(chunks) : chunks[s].text_id = None
    /\ \E s \in Live, t \in Live :
          s # t /\ chunks[s].text_id = chunks[t].text_id
                /\ chunks[s].text_id = found.results[1].id

\* C5: a search on a store whose index holds no entry returns the empty
\* sequence and does not raise
C5_EmptyIndexSearchIsEmpty ==
    (found.valid /\ Len(index) = 0) => (~found.raised /\ found.results = <<>>)

\* the distance between the query of the last search and the vector at the
\* index position a result names
ResultDistance(r) ==
    L2Sqr(index[PyIndex(index, r.chunk_index)],
          normalize_L2(get_embedding(found.query, found.outcome)))

\* C6: of two results of one search, the one nearer to the query has a score
\* greater than or equal to that of the farther one
C6_NearerScoresHigher ==
    found.valid =>
        \A i \in 1..Len(found.results), j \in 1..Len(found.results) :
            ResultDistance(found.results[i]) < ResultDistance(found.results[j])
                => found.results[i].score >= found.results[j].score

-----------------------------------------------------------------------------
(* Properties of add_text and update_text *)

\* the call completed by the last step was add_text or update_text with content
Embeds == last.op \in {"add", "update"} /\ last.given \in {"content", "both"}

\* C2: the index and the catalog hold the same number of entries, and every
\* catalog entry carries its own position as chunk_index and sits at the index
\* position of the vector that was appended for its content
C2_IndexCatalogAligned ==
    /\ Len(index) = Len(chunks)
    /\ \A s \in 1..Len(chunks) :
          /\ chunks[s].chunk_index = s - 1
          /\ index[s] \in {normalize_L2(ProviderVector(chunks[s].content)), ZeroVector}

\* an add_text of two chunks that raised at the second, after earlier calls
C2_Witness ==
    /\ last.op = "add"
    /\ last.raised
    /\ Len(last.slots) = 1
    /\ Len(chunks) >= 2

\* C3: after update_text with content returns True, every chunk that carries
\* the text_id is one of the chunks that call added
C3_UpdateLeavesOnlyNewChunks ==
    (last.op = "update" /\ Embeds /\ last.ret) =>
        \A s \in 1..Len(chunks) :
            chunks[s].text_id = last.id => (s - 1) \in Range(last.slots)

C8_FailedCallChangesNothing ==
    [][last'.raised => (index' = index /\ chunks' = chunks /\ id_map' = id_map)]_vars

-----------------------------------------------------------------------------
(* Properties of a refreshed text *)

\* the last step's search came right after an add_text or update_text that
\* stored its content as a single chunk, and asked for that content
SearchedFresh ==
    /\ found.valid
    /\ ~found.raised
    /\ Embeds
    /\ last.ret
    /\ Len(last.slots) = 1
    /\ found.query = last.content

QueryVector == normalize_L2(get_embedding(found.query, found.outcome))

\* the documents other than the last call's that own a live chunk whose vector
\* is the vector of the chunk the last call stored
SameVectorOthers ==
    {chunks[s].text_id : s \in {t \in Live : /\ chunks[t].text_id # last.id
                                            /\ t <= Len(index)
                                            /\ index[t] = index[last.slots[1] + 1]}}

\* C4 as claimed: the document is among the results whenever fewer than limit
\* other documents have a live chunk with the same vector
C4_FreshTextIsFound ==
    (SearchedFresh /\ Cardinality(SameVectorOthers) < found.limit)
        => last.id \in ResultIds(found.results)

\* the limit * 3 nearest index positions, as labels
Window == IndexSearch(index, QueryVector, found.limit * OverFetch)

\* the documents other than the last call's that own the live chunk at one of
\* the first p - 1 places of the window
OthersBefore(p) ==
    {chunks[Window[q].label + 1].text_id :
        q \in {r \in 1..(p - 1) : /\ Window[r].label >= 0
                                 /\ Window[r].label < Len(chunks)
                                 /\ (Window[r].label + 1) \in Live
                                 /\ chunks[Window[r].label + 1].text_id # last.id}}

\* C4 as amended: the document is among the results whenever its new chunk is
\* one of the limit * 3 nearest index positions and fewer than limit other
\* documents own a live chunk before it there
C4_FreshTextFoundInWindow ==
    SearchedFresh =>
        \A p \in 1..Len(Window) :
            (Window[p].label = last.slots[1] /\ Cardinality(OthersBefore(p)) < found.limit)
                => last.id \in ResultIds(found.results)

\* a search with limit 1 that found the refreshed document behind a tombstoned
\* chunk with the same vector
C4_Witness ==
    /\ SearchedFresh
    /\ last.op = "update"
    /\ found.limit = 1
    /\ last.id \in ResultIds(found.results)
    /\ \E s \in 1..Len(chunks) :
          chunks[s].text_id = None /\ index[s] = index[last.slots[1] + 1]

-----------------------------------------------------------------------------
(* Properties of loading *)

\* C9: when the index file or the metadata file is missing or unreadable, the
\* store that is loaded is empty: no vectors, no chunks, no id_map
C9_UnreadableFileLoadsEmpty ==
    (last.op = "load" /\ (diskIndex.state # "ok" \/ diskMeta.state # "ok")) =>
        (index = <<>> /\ chunks = <<>> /\ id_map = NoIdMap)

\* C10: when the index file was written whole and the metadata file is the one
\* of before (or there is none yet), the store is not loaded with an index and a
\* catalog of different lengths: files that disagree load as an empty store
C10_LoadedStoreIsAligned ==
    (last.op = "load" /\ diskIndex.state = "ok" /\ diskMeta.state # "torn") =>
        /\ Len(index) = Len(chunks)
        /\ Len(diskIndex.data) # Len(diskMeta.chunks) => index = <<>>

-----------------------------------------------------------------------------
(* Properties of a store whose index and catalog differ in length *)

\* C11: while the index and the catalog hold different numbers of entries, an
\* add_text or update_text call appends nothing to either
C11_MisalignedStoreHaltsMutation ==
    [][(up /\ Len(index) # Len(chunks) /\ last'.op \in {"add", "update"})
          => (index' = index /\ chunks' = chunks)]_vars

-----------------------------------------------------------------------------
(* Properties of calls made by several threads *)

\* no thread is inside a call
Quiescent == \A t \in Threads : calls[t].pc = "idle"

\* C12: once two threads' add_text / update_text calls have returned, the store
\* is as some serial order of the calls leaves it: the index and the catalog
\* have the same length, every catalog entry carries its own position and sits
\* at the index position of the vector of its content, and every live chunk of
\* a document is one of the chunks id_map lists for it (none is stale)
C12_ConcurrentCallsSerialize ==
    Quiescent =>
        /\ Len(index) = Len(chunks)
        /\ \A s \in 1..Len(chunks) :
              /\ chunks[s].chunk_index = s - 1
              /\ s <= Len(index)
              /\ index[s] = normalize_L2(ProviderVector(chunks[s].content))
        /\ \A s \in Live : (s - 1) \in Range(id_map[chunks[s].text_id])

\* C13: a search whose index lookup ran while an add_text had appended a vector
\* and not yet its catalog entry completes without raising, and each result
\* is the catalog entry recorded at an index position the lookup returned
C13_SearchDuringAddSeesWholePairs ==
    \A t \in Threads :
        (calls[t].pc = "idle" /\ calls[t].op = "search" /\ calls[t].mid) =>
            /\ ~calls[t].raised
            /\ \A i \in 1..Len(calls[t].results) :
                  /\ \E c \in 1..Len(calls[t].candidates) :
                        /\ calls[t].candidates[c].label >= 0
                        /\ calls[t].candidates[c].label = calls[t].results[i].chunk_index
                  /\ calls[t].results[i].chunk_index < Len(chunks)
                  /\ chunks[calls[t].results[i].chunk_index + 1].chunk_index
                        = calls[t].results[i].chunk_index
                  /\ chunks[calls[t].results[i].chunk_index + 1].content
                        = calls[t].results[i].content

\* some chunk of the catalog cks listed in slots carries text_id
LiveAmong(cks, slots, text_id) ==
    \E n \in Range(slots) : n < Len(cks) /\ cks[n + 1].text_id = text_id

\* C14: while update_text with content runs, neither the catalog in memory nor
\* the catalog in the metadata file holds a live chunk of the document's
\* previous content together with a live chunk of the new content
C14_UpdateTombstonesBeforeAppending ==
    \A t \in Threads :
        calls[t].op = "update" =>
            /\ ~ /\ LiveAmong(chunks, calls[t].old_chunk_indices, calls[t].text_id)
                 /\ LiveAmong(chunks, calls[t].chunk_indices, calls[t].text_id)
            /\ ~ /\ LiveAmong(diskMeta.chunks, calls[t].old_chunk_indices, calls[t].text_id)
                 /\ LiveAmong(diskMeta.chunks, calls[t].chunk_indices, calls[t].text_id)

-----------------------------------------------------------------------------
(* Properties of update_text *)

\* C15: update_text for a text_id that id_map does not hold returns False, does
\* not raise, and leaves the index, the catalog, id_map and both files as they
\* were
C15_UnknownIdUpdateIsRefused ==
    [][(last'.op = "update" /\ last'.id \notin DOMAIN id_map) =>
          /\ ~last'.ret
          /\ ~last'.raised
          /\ UNCHANGED <<index, chunks, id_map, diskIndex, diskMeta>>]_vars

\* an update_text with content and metadata for an unknown text_id was refused
\* by a store that holds another document, in memory and in its files
C15_Witness ==
    /\ last.op = "update"
    /\ last.given = "both"
    /\ last.id \notin DOMAIN id_map
    /\ ~last.ret
    /\ chunks # <<>>
    /\ diskMeta.state = "ok"
    /\ diskMeta.chunks = chunks

\* the call completed by the last step was an update_text with metadata and no
\* content that returned True
MetadataOnly == last.op = "update" /\ last.given = "metadata" /\ last.ret

\* the keys of a metadata mapping
Keys(m) == {p[1] : p \in m}

\* C16: after update_text with metadata and no content returns True, every
\* chunk that carries the text_id has every pair of the given metadata, keeps
\* every pair it had under another key, and has updated_at
C16_MetadataMergedIntoEveryLiveChunk ==
    [][\A m \in MetaArgs :
          (MetadataOnly' /\ UpdateText(last'.id, FALSE, NoText, TRUE, m, <<>>)) =>
              \A s \in 1..Len(chunks') :
                  chunks'[s].text_id = last'.id =>
                      /\ m \subseteq chunks'[s].metadata
                      /\ \A p \in chunks[s].metadata :
                            p[1] \notin Keys(m) \cup {"updated_at"}
                                => p \in chunks'[s].metadata
                      /\ "updated_at" \in Keys(chunks'[s].metadata)]_vars

\* C17: update_text with metadata and no content embeds nothing: the index and
\* its file, id_map and the length of the catalog stay as they were, every
\* chunk keeps its content, text_id, chunk_num and chunk_index, and no
\* provider call is made
C17_MetadataUpdateEmbedsNothing ==
    [][\A m \in MetaArgs :
          (MetadataOnly' /\ UpdateText(last'.id, FALSE, NoText, TRUE, m, <<>>)) =>
              /\ index' = index
              /\ diskIndex' = diskIndex
              /\ id_map' = id_map
              /\ Len(chunks') = Len(chunks)
              /\ \A s \in 1..Len(chunks) :
                    /\ chunks'[s].content = chunks[s].content
                    /\ chunks'[s].text_id = chunks[s].text_id
                    /\ chunks'[s].chunk_num = chunks[s].chunk_num
                    /\ chunks'[s].chunk_index = chunks[s].chunk_index
              /\ last'.resp = <<>>]_vars

\* an update_text with metadata only returned True for a document of two
\* chunks, and both carry the given metadata
C17_Witness ==
    /\ last.op = "update"
    /\ last.given = "metadata"
    /\ last.ret
    /\ Len(id_map[last.id]) = 2
    /\ \A n \in Range(id_map[last.id]) :
          /\ chunks[n + 1].text_id = last.id
          /\ Importance \subseteq chunks[n + 1].metadata

\* C18: after update_text with content and metadata, id_map lists for the
\* text_id the chunks of the new content, appended by this call, and each
\* carries the text_id and exactly the metadata given
C18_UpdateWithBothAppliesFreshMetadata ==
    [][\A m \in MetaArgs :
          (/\ last'.op = "update" /\ last'.given = "both" /\ last'.ret
           /\ UpdateText(last'.id, TRUE, last'.content, TRUE, m, last'.resp)) =>
              /\ Len(id_map'[last'.id]) = Len(ChunksOf(last'.content))
              /\ \A n \in Range(id_map'[last'.id]) :
                    /\ n >= Len(chunks)
                    /\ chunks'[n + 1].text_id = last'.id
                    /\ chunks'[n + 1].metadata = m
              /\ \A s \in 1..Len(chunks') :
                    chunks'[s].text_id = last'.id /\ s > Len(chunks)
                        => chunks'[s].metadata = m]_vars

\* an update_text with content and metadata returned True: the chunk it
\* tombstoned carries a source, the chunk it added carries the importance only
C18_Witness ==
    /\ last.op = "update"
    /\ last.given = "both"
    /\ last.ret
    /\ \E s \in 1..Len(chunks) :
          /\ chunks[s].text_id = None
          /\ Source \subseteq chunks[s].metadata
    /\ \A n \in Range(last.slots) : chunks[n + 1].metadata = Importance

-----------------------------------------------------------------------------
(* Properties of the number and the order of search results *)

\* the index positions among the limit * 3 nearest to the query
WindowSlots == {Window[p].label : p \in {q \in 1..Len(Window) : Window[q].label >= 0}}

\* the documents that own a live chunk at one of those positions
WindowDocs ==
    {chunks[l + 1].text_id : l \in {k \in WindowSlots : k < Len(chunks) /\ (k + 1) \in Live}}

\* C19: a search returns min(limit, m) results, m the number of documents that
\* own a live chunk among the limit * 3 nearest index positions, and every
\* result names one of those positions
C19_SearchReturnsMinLimitWindowDocs ==
    found.valid =>
        /\ ~found.raised
        /\ Len(found.results) = IF found.limit < Cardinality(WindowDocs)
                                THEN found.limit ELSE Cardinality(WindowDocs)
        /\ \A i \in 1..Len(found.results) :
              found.results[i].chunk_index \in WindowSlots

\* the places of the window that hold a live chunk of document d
HitsOf(d) ==
    {p \in 1..Len(Window) : /\ Window[p].label >= 0
                            /\ Window[p].label < Len(chunks)
                            /\ chunks[Window[p].label + 1].text_id = d}

\* C20: the results of a search are in ascending order of distance to the
\* query, and the chunk returned for a document is its first live chunk in
\* candidate order, which no other live candidate chunk of the document is
\* nearer than
C20_ResultsAscendingNearestPerDocument ==
    found.valid =>
        /\ \A i \in 1..Len(found.results), j \in 1..Len(found.results) :
              i < j => ResultDistance(found.results[i]) <= ResultDistance(found.results[j])
        /\ \A i \in 1..Len(found.results) :
              \E p \in HitsOf(found.results[i].id) :
                  /\ Window[p].label = found.results[i].chunk_index
                  /\ \A q \in HitsOf(found.results[i].id) :
                        /\ p <= q
                        /\ ResultDistance(found.results[i]) <= Window[q].dist

\* a search returned two documents at different distances, and for one of
\* them a chunk stored after another live chunk of it that is farther away
C20_Witness ==
    /\ found.valid
    /\ Len(found.results) = 2
    /\ ResultDistance(found.results[1]) < ResultDistance(found.results[2])
    /\ \E i \in 1..2 : \E q \in HitsOf(found.results[i].id) :
          /\ Window[q].label < found.results[i].chunk_index
          /\ Window[q].dist > ResultDistance(found.results[i])

-----------------------------------------------------------------------------
(* Properties of what add_text records *)

\* C21: an add_text that returns, for content of N chunks and a catalog of s
\* entries, returns the slots s, ..., s + N - 1, has appended chunk i of the
\* content at slot s + i with chunk_num i under the text_id, and has set
\* id_map[text_id] to those slots
C21_AddReturnsConsecutiveSlots ==
    [][(last'.op = "add" /\ ~last'.raised) =>
          /\ last'.slots = [i \in 1..Len(ChunksOf(last'.content)) |-> Len(chunks) + i - 1]
          /\ Len(chunks') = Len(chunks) + Len(ChunksOf(last'.content))
          /\ \A i \in 1..Len(ChunksOf(last'.content)) :
                /\ chunks'[Len(chunks) + i].chunk_index = Len(chunks) + i - 1
                /\ chunks'[Len(chunks) + i].chunk_num = i - 1
                /\ chunks'[Len(chunks) + i].text_id = last'.id
                /\ chunks'[Len(chunks) + i].content = ChunksOf(last'.content)[i]
          /\ id_map'[last'.id] = last'.slots]_vars

\* an add_text of two chunks returned slots 1 and 2 on a store that held one
C21_Witness ==
    /\ last.op = "add"
    /\ ~last.raised
    /\ last.slots = <<1, 2>>
    /\ Len(chunks) = 3
    /\ id_map[last.id] = <<1, 2>>

\* C22: get_all_chunks_for_text returns no chunk for a text_id id_map does not
\* hold; for any other it returns the chunks id_map lists, in order, each live
\* under the text_id and numbered 0, 1, ...; and after an add_text or an
\* update_text with content that returned True these are the chunks of that
\* call's content
C22_ChunksOfReturnsLatestChunks ==
    /\ \A d \in Docs :
          IF d \notin DOMAIN id_map
          THEN get_all_chunks_for_text(chunks, id_map, d) = <<>>
          ELSE /\ get_all_chunks_for_text(chunks, id_map, d)
                     = [i \in 1..Len(id_map[d]) |-> chunks[id_map[d][i] + 1]]
               /\ \A i \in 1..Len(id_map[d]) :
                     /\ chunks[id_map[d][i] + 1].text_id = d
                     /\ chunks[id_map[d][i] + 1].chunk_num = i - 1
    /\ (Embeds /\ last.ret) =>
          /\ Len(get_all_chunks_for_text(chunks, id_map, last.id))
                = Len(ChunksOf(last.content))
          /\ \A i \in 1..Len(ChunksOf(last.content)) :
                /\ get_all_chunks_for_text(chunks, id_map, last.id)[i].content
                      = ChunksOf(last.content)[i]
                /\ get_all_chunks_for_text(chunks, id_map, last.id)[i].chunk_index
                      = last.slots[i]

\* an update_text with content returned True for a document that has three
\* chunks in the catalog, two of them tombstoned or left by an earlier add_text
C22_Witness ==
    /\ last.op = "update"
    /\ Embeds
    /\ last.ret
    /\ Len(get_all_chunks_for_text(chunks, id_map, last.id)) = 1
    /\ Len(chunks) = 3
    /\ \E s \in 1..Len(chunks) : chunks[s].text_id = None
    /\ \E d \in Docs : d \notin DOMAIN id_map

-----------------------------------------------------------------------------
(* Properties of the catalog and the index over time *)

\* C23: no step of the running store shortens the index or the catalog or
\* changes a vector of the index; a catalog entry keeps its chunk_index, its
\* content and its chunk_num; an entry whose text_id is None keeps it; and no
\* two catalog entries carry the same chunk_index
C23_AppendOnlyMonotoneTombstones ==
    [][/\ Len(index') >= Len(index)
       /\ Len(chunks') >= Len(chunks)
       /\ \A s \in 1..Len(index) : index'[s] = index[s]
       /\ \A s \in 1..Len(chunks) :
             /\ chunks'[s].chunk_index = chunks[s].chunk_index
             /\ chunks'[s].content = chunks[s].content
             /\ chunks'[s].chunk_num = chunks[s].chunk_num
             /\ chunks[s].text_id = None => chunks'[s].text_id = None
       /\ \A s \in 1..Len(chunks'), t \in 1..Len(chunks') :
             s # t => chunks'[s].chunk_index # chunks'[t].chunk_index]_vars

\* an add_text returned on a store that holds a tombstoned chunk, filling the
\* catalog to three entries
C23_Witness ==
    /\ last.op = "add"
    /\ last.ret
    /\ Len(chunks) = 3
    /\ Len(index) = 3
    /\ chunks[1].text_id = None
    /\ chunks[3].chunk_index = 2

-----------------------------------------------------------------------------
(* Properties of the files *)

\* C24: after an add_text that returned or an update_text that returned True,
\* the two files hold the index and the metadata as they are in memory, so a
\* store constructed from the files has the same index, catalog and id_map
C24_FilesReflectMemoryAfterReturn ==
    (last.op \in {"add", "update"} /\ last.ret) =>
        /\ initialize_index(diskIndex) = index
        /\ initialize_metadata(diskMeta) = [chunks |-> chunks, id_map |-> id_map]


-----------------------------------------------------------------------------
(* Properties of the chunks add_text makes of its input *)

\* an add_text call that returns has appended `slots` to the catalog
AddReturned == last.op = "add" /\ ~last.raised

\* C25: when chunk_by_paragraph yields no chunk for the input (every paragraph
\* is under min_size, or the text is empty), an add_text that returns has
\* recorded exactly one chunk, whose content is the whole input; and every
\* add_text that returns has recorded at least one chunk.
C25_UnchunkableInputStoredWhole ==
    AddReturned =>
        /\ Len(last.slots) >= 1
        /\ id_map[last.id] = last.slots
        /\ chunk_by_paragraph(last.content) = <<>> =>
              /\ Len(last.slots) = 1
              /\ chunks[last.slots[1] + 1].content = last.content
              /\ chunks[last.slots[1] + 1].text_id = last.id

\* an add_text of two paragraphs under min_size has returned, after another
\* text was added
C25_Witness ==
    /\ AddReturned
    /\ last.content = TextCC
    /\ chunk_by_paragraph(TextCC) = <<>>
    /\ last.slots = <<1>>
    /\ chunks[2].content = TextCC

-----------------------------------------------------------------------------
(* Properties of the chunker *)

\* len() of a chunk
ChunkLen(c) == StrLen(c[1])

\* the paragraphs of a text the chunker does not drop
RECURSIVE KeptSentences(_)
KeptSentences(text) ==
    IF text = <<>> THEN <<>>
    ELSE (IF StrLen(Head(text)) >= MinSize THEN Head(text) ELSE <<>>)
             \o KeptSentences(Tail(text))

\* the sentences of a sequence of chunks, in order
RECURSIVE ChunkSentences(_)
ChunkSentences(cs) ==
    IF cs = <<>> THEN <<>> ELSE Head(cs)[1] \o ChunkSentences(Tail(cs))

\* the text has a paragraph the chunker re-splits on sentence boundaries
Resplit(text) == \E i \in 1..Len(text) : StrLen(text[i]) > MaxSize

\* C26: every chunk the chunker returns is non-empty and at most max_size
\* long, and at least min_size long unless it is the last chunk, also when a
\* paragraph over max_size is re-split on sentence boundaries and its
\* sentences are joined with one space.
C26_ChunksWithinSizeBounds ==
    chunked.done =>
        \A i \in 1..Len(chunked.chunks) :
            /\ chunked.chunks[i][1] # <<>>
            /\ ChunkLen(chunked.chunks[i]) > 0
            /\ ChunkLen(chunked.chunks[i]) <= MaxSize
            /\ ChunkLen(chunked.chunks[i]) >= MinSize \/ i = Len(chunked.chunks)

\* C27: when a paragraph over max_size is re-split on sentence boundaries,
\* every sentence of it appears whole, in the original order, in exactly one
\* chunk: the chunks' sentences are the sentences of the paragraphs that were
\* not dropped, none lost.
C27_ResplitKeepsEverySentence ==
    (chunked.done /\ Resplit(chunked.text)) =>
        ChunkSentences(chunked.chunks) = KeptSentences(chunked.text)

-----------------------------------------------------------------------------
(* Properties of MemoryStore *)

\* the last MemoryStore call was a retrieve_memories that went to the vector
\* store
AskedVectorStore ==
    reply.op = "retrieve" /\ vector_store /\ reply.args.use_vector

\* the vector search of the last retrieve_memories gave nothing to return
NoVectorResult == found.raised \/ found.results = <<>>

TableOf(args, rw, tb) == IF args.domain = None THEN rw ELSE tb[args.domain]

\* the call passed a content / a metadata mapping
GaveContent(args) == args.given \in {"content", "both"}
GaveMetadata(args) == args.given \in {"metadata", "both"}

\* what an update_memory(args) that found its row has made of it: the
\* supplied content and metadata values are in the row, and every metadata
\* key that was not supplied is as before (updated_at is the update's own)
RowReflects(args, before, after) ==
    /\ after.content = IF GaveContent(args) THEN args.content ELSE before.content
    /\ GaveMetadata(args) => args.metadata \subseteq after.metadata
    /\ \A p \in before.metadata :
          (p[1] \notin Keys(args.metadata) /\ p[1] # "updated_at")
              => p \in after.metadata

\* C29: update_memory returns False exactly when no stored memory has the
\* given memory_id, and then neither the rows nor the vector store change;
\* for an existing memory_id it returns True and the row's content and
\* metadata reflect the supplied values, every unsupplied metadata key
\* preserved.
C29_UpdateMemoryRefusesOrMerges ==
    [][reply'.op = "update" =>
          /\ ~reply'.raised
          /\ reply'.ret = (reply'.args.memory_id
                              \in DOMAIN TableOf(reply'.args, rows, tables))
          /\ IF reply'.ret
             THEN RowReflects(reply'.args,
                              TableOf(reply'.args, rows, tables)[reply'.args.memory_id],
                              TableOf(reply'.args, rows', tables')[reply'.args.memory_id])
             ELSE UNCHANGED <<rows, tables, index, chunks, id_map,
                              diskIndex, diskMeta>>]_vars

\* the ids the tables hold: every id a store_memory call returned so far
StoredIds == DOMAIN rows \cup UNION {DOMAIN tables[d] : d \in Domains}

\* C30: each store_memory call returns a unique memory ID: the ID it returns
\* is none of the IDs earlier store_memory calls returned, whatever the time
\* between the calls.
C30_StoreMemoryReturnsFreshId ==
    [][(reply'.op = "store" /\ ~reply'.raised /\ <<rows, tables>>' # <<rows, tables>>)
          => reply'.ret \notin StoredIds]_vars

-----------------------------------------------------------------------------
(* Properties of the cache of OllamaEmbeddings                               *)

\* C32: after any sequence of get_embedding / get_embeddings calls the cache
\* holds at most _cache_max_size (100) entries.
C32_CacheHoldsAtMostMaxSize == Len(cache) <= CacheMaxSize

\* a full cache that has already given up its first entry for a new one
C32_Witness ==
    /\ Len(cache) = CacheMaxSize
    /\ cache[1].key > 1
    /\ asked.op = "get_embedding"

\* the keys a step deletes from the cache
Evicted == CacheKeys(cache) \ CacheKeys(cache')

\* C31: when the cache is full and a new text is embedded, the entry evicted
\* is the least recently used one, a hit of get_embedding counting as a use.
C31_EvictsLeastRecentlyUsed ==
    [][(asked'.op = "get_embedding" /\ Len(cache) >= CacheMaxSize)
          => \A k \in Evicted : k = Head(recency)]_vars

\* the call before the i-th call of a step: the one before it in the same
\* get_embeddings, or the last call of the step before
CallBefore(i) ==
    IF i > 1 THEN asked'.calls[i - 1]
    ELSE IF asked = NoAsk THEN [text |-> <<>>, outcome |-> "-", contacted |-> FALSE]
    ELSE asked.calls[Len(asked.calls)]

\* C38: a failed provider call returns the zero vector and inserts nothing
\* into the cache; the next get_embedding for the same text contacts the
\* provider again, and its answer is returned and cached; the cache only
\* holds vectors the provider returned.
C38_FailureIsNotCached ==
    [][LET cs == asked'.calls IN
       /\ \A i \in 1..Len(cs) :
             /\ (cs[i].contacted /\ cs[i].outcome = "fail")
                   => cs[i].ret = ZeroVector /\ ~cs[i].stored
             /\ (CallBefore(i).text = cs[i].text /\ CallBefore(i).contacted
                    /\ CallBefore(i).outcome = "fail")
                   => /\ cs[i].contacted
                      /\ cs[i].outcome = "ok"
                            => /\ cs[i].ret = Answer(cs[i].text, "ok")
                               /\ cs[i].stored
                               /\ CacheGet(cache', Hash(cs[i].text)) = cs[i].ret
       /\ (Len(cs) = 1 /\ cs[1].contacted /\ cs[1].outcome = "fail")
             => cache' = cache
       /\ \A j \in 1..Len(cache') :
             cache'[j].embedding = Answer(CacheText(cache'[j].key), "ok")]_vars

\* a get_embeddings whose first request failed and whose second, for the same
\* text, was answered and cached
C38_Witness ==
    /\ asked.op = "get_embeddings"
    /\ asked.calls[1].outcome = "fail"
    /\ asked.calls[1].ret = ZeroVector
    /\ asked.calls[2].text = asked.calls[1].text
    /\ asked.calls[2].contacted
    /\ asked.calls[2].ret = Answer(asked.calls[2].text, "ok")
    /\ Hash(asked.calls[2].text) \in CacheKeys(cache)
    /\ Len(cache) = CacheMaxSize

-----------------------------------------------------------------------------
(* Properties that tie the catalog to the document index                     *)

\* the live catalog slots that carry doc_id d
LiveOf(d) == {s \in Live : chunks[s].text_id = d}

\* the catalog slots id_map lists for doc_id d
Listed(d) == IF d \in DOMAIN id_map THEN {n + 1 : n \in Range(id_map[d])} ELSE {}

\* C33: at every reachable state and for every doc_id d, the live catalog
\* chunks owned by d are exactly the slots id_map lists for d
C33_LiveChunksAreTheListedSlots == \A d \in Docs : LiveOf(d) = Listed(d)

\* C34: once a doc_id has been added it stays present: after every add_text
\* and update_text it is still listed in id_map, the slots listed for it are
\* live chunks of it and at least one, and an update_text of it with content
\* or metadata that returns does not return False
C34_AddedDocumentStaysPresent ==
    [][/\ \A d \in DOMAIN id_map : d \in DOMAIN id_map'
       /\ \A d \in DOMAIN id_map' : Listed(d)' # {} /\ Listed(d)' \subseteq LiveOf(d)'
       /\ (last'.op = "update" /\ last'.id \in DOMAIN id_map
             /\ last'.given # "neither" /\ ~last'.raised) => last'.ret]_vars

\* a document whose content was replaced by update_text: its old chunk is
\* marked deleted and its new chunk is live
C34_Witness ==
    /\ last.op = "update"
    /\ last.given = "content"
    /\ last.ret
    /\ \E s \in 1..Len(chunks) : chunks[s].text_id = None
    /\ LiveOf(last.id) # {}
    /\ Listed(last.id) \subseteq LiveOf(last.id)

\* the catalog entries that are live and carry a doc_id other than d
OwnedByOthers(d) == {s \in Live : chunks[s].text_id # d}

\* C35: add_text or update_text of doc_id A changes no chunk owned by another
\* doc_id B, neither its content, metadata, owner nor liveness, also when the
\* caller passed one metadata dict to the add_text of A and of B
C35_OtherDocumentsUntouched ==
    [][last'.op \in {"add", "update"}
          => \A s \in OwnedByOthers(last'.id) : chunks'[s] = chunks[s]]_vars

-----------------------------------------------------------------------------
(* Properties of MemoryStore and its VectorStore                             *)

\* the step is a store_memory (no time passes in it) that inserted its row and
\* called add_text
StoreReachedVectorStore ==
    /\ clock' = clock
    /\ reply'.op = "store"
    /\ vector_store
    /\ MemoryId(Time) \notin DOMAIN rows

\* the step is an update_memory that updated its row and called update_text
UpdateReachedVectorStore ==
    /\ clock' = clock
    /\ reply'.op = "update"
    /\ vector_store
    /\ reply'.args.memory_id \in DOMAIN rows
    /\ reply'.args.given # "neither"

\* C36: a store_memory whose add_text raises still inserts the row and returns
\* its id; an update_memory whose update_text raises or returns False still
\* updates the row and returns True
C36_VectorStoreFailuresAreSwallowed ==
    [][/\ (StoreReachedVectorStore /\ last'.raised)
          => /\ ~reply'.raised
             /\ reply'.ret = MemoryId(Time)
             /\ reply'.ret \in DOMAIN rows'
             /\ rows'[reply'.ret].content = reply'.args.content
       /\ (UpdateReachedVectorStore /\ (last'.raised \/ ~last'.ret))
          => /\ ~reply'.raised
             /\ reply'.ret = TRUE
             /\ rows'[reply'.args.memory_id].updated_at = Time
             /\ reply'.args.given \in {"content", "both"}
                   => rows'[reply'.args.memory_id].content = reply'.args.content]_vars

\* an update_memory that returned True although update_text returned False:
\* the add_text of the memory's store_memory had raised
C36_Witness ==
    /\ vector_store
    /\ reply.op = "update"
    /\ reply.ret = TRUE
    /\ reply.args.given = "content"
    /\ last.op = "update"
    /\ last.id = reply.args.memory_id
    /\ ~last.raised
    /\ ~last.ret
    /\ rows[reply.args.memory_id].content = reply.args.content

\* the contents of the live chunks of memory id are chunks of content
DerivedFrom(id, content) ==
    \A s \in LiveOf(id) :
       \E i \in 1..Len(ChunksOf(content)) : ChunksOf(content)[i] = chunks[s].content

\* C37: with a vector store configured, after any sequence of store_memory
\* and update_memory calls every row of the table has at least one live chunk
\* in the vector store, and its live chunks are chunks of the row's content
C37_EveryRowIsIndexed ==
    vector_store =>
        \A id \in DOMAIN rows : LiveOf(id) # {} /\ DerivedFrom(id, rows[id].content)

=============================================================================
